---- MODULE Spec2Model ----
(***************************************************************************)
(* A model of the durable metadata core and the shared-memory substrate of *)
(* IOWarp Core.                                                            *)
(*                                                                         *)
(*   SpecWal   the write-ahead transaction log (TransactionLog): one       *)
(*             writer process, its std::ofstream buffer, the file as the   *)
(*             operating system holds it, and a process crash.             *)
(*   SpecHeap  the bump heap (Heap<true>): threads running Allocate        *)
(*             concurrently on one atomic offset.                          *)
(*                                                                         *)
(* Bytes are the integers 0..255 and a file or a buffer is a sequence of   *)
(* bytes.  The host is little-endian ("native byte order").                *)
(***************************************************************************)
EXTENDS Integers, Sequences, FiniteSets, TLC

\* ------------------------------------------------------------------ bounds

\* Log calls one writer makes in a run.
MaxLog == 2

\* sizeof(chi::PoolQuery): defined outside the repository's sources; the log
\* treats the query as that many opaque bytes.
SizeofPoolQuery == 2

\* ------------------------------------------------------- WAL: record types

kCreateNewBlob == 0
kExtendBlob == 1
kClearBlob == 2
kDelBlob == 3
kCreateTag == 4
kDelTag == 5

\* ------------------------------------------- WAL: serialization primitives

RECURSIVE Shr8(_, _)
\* val >> (8 * n)
Shr8(val, n) == IF n = 0 THEN val ELSE Shr8(val \div 256, n - 1)

\* The n low bytes of val, least significant first: what
\* reinterpret_cast<const char *>(&val) yields on a little-endian host.  A
\* value that needs more than n bytes loses its high bytes, as the
\* static_cast<chi::u32> of a size_t does.
RawBytes(val, n) == [i \in 1..n |-> Shr8(val, i - 1) % 256]

WriteU32(buf, val) == buf \o RawBytes(val, 4)

WriteU64(buf, val) == buf \o RawBytes(val, 8)

\* A float is carried as its 32-bit pattern; WriteFloat copies the 4 bytes.
WriteFloat(buf, val) == buf \o RawBytes(val, 4)

WriteString(buf, s) == WriteU32(buf, Len(s)) \o s

WriteRaw(buf, bytes, len) == buf \o SubSeq(bytes, 1, len)

\* ----------------------------------------- WAL: deserialization primitives

RECURSIVE RawValue(_, _, _)
\* memcpy of n bytes at data.data() + off into an unsigned integer.
RawValue(data, off, n) ==
    IF n = 0 THEN 0 ELSE data[off + 1] + 256 * RawValue(data, off + 1, n - 1)

\* Each Read* returns the value and the advanced offset.
ReadU32(data, off) == [val |-> RawValue(data, off, 4), off |-> off + 4]

ReadU64(data, off) == [val |-> RawValue(data, off, 8), off |-> off + 8]

ReadFloat(data, off) == [val |-> RawValue(data, off, 4), off |-> off + 4]

\* ReadString without its off += len.
ReadStringNoAdvance(data, off) ==
    LET len == ReadU32(data, off)
    IN  [val |-> SubSeq(data, len.off + 1, len.off + len.val), off |-> len.off]

ReadString(data, off) ==
    LET len == ReadU32(data, off)
    IN  [val |-> SubSeq(data, len.off + 1, len.off + len.val),
         off |-> len.off + len.val]

ReadRaw(data, off, len) ==
    [val |-> SubSeq(data, off + 1, off + len), off |-> off + len]

\* ------------------------------------------------- WAL: the six Log bodies

RECURSIVE SerializeBlocks(_, _, _)
\* The loop over txn.new_blocks_ of Log(TxnExtendBlob), from block i on.
SerializeBlocks(buf, blocks, i) ==
    IF i > Len(blocks) THEN buf
    ELSE LET blk == blocks[i]
             b1 == WriteU32(buf, blk.bdev_major_)
             b2 == WriteU32(b1, blk.bdev_minor_)
             b3 == WriteRaw(b2, blk.target_query_, SizeofPoolQuery)
             b4 == WriteU64(b3, blk.target_offset_)
             b5 == WriteU64(b4, blk.size_)
         IN  SerializeBlocks(b5, blocks, i + 1)

SerializeCreateNewBlob(txn) ==
    WriteFloat(WriteString(WriteU32(WriteU32(<<>>, txn.tag_major_),
                                    txn.tag_minor_), txn.blob_name_), txn.score_)

SerializeExtendBlob(txn) ==
    SerializeBlocks(
        WriteU32(WriteString(WriteU32(WriteU32(<<>>, txn.tag_major_),
                                      txn.tag_minor_), txn.blob_name_),
                 Len(txn.new_blocks_)),
        txn.new_blocks_, 1)

SerializeClearBlob(txn) ==
    WriteString(WriteU32(WriteU32(<<>>, txn.tag_major_), txn.tag_minor_),
                txn.blob_name_)

SerializeDelBlob(txn) ==
    WriteString(WriteU32(WriteU32(<<>>, txn.tag_major_), txn.tag_minor_),
                txn.blob_name_)

SerializeCreateTag(txn) ==
    WriteU32(WriteU32(WriteString(<<>>, txn.tag_name_), txn.tag_major_),
             txn.tag_minor_)

SerializeDelTag(txn) ==
    WriteU32(WriteU32(WriteString(<<>>, txn.tag_name_), txn.tag_major_),
             txn.tag_minor_)

\* The overload of Log chosen by the static type of the payload struct.
Serialize(struct, txn) ==
    CASE struct = "TxnCreateNewBlob" -> SerializeCreateNewBlob(txn)
      [] struct = "TxnExtendBlob" -> SerializeExtendBlob(txn)
      [] struct = "TxnClearBlob" -> SerializeClearBlob(txn)
      [] struct = "TxnDelBlob" -> SerializeDelBlob(txn)
      [] struct = "TxnCreateTag" -> SerializeCreateTag(txn)
      [] struct = "TxnDelTag" -> SerializeDelTag(txn)

\* ------------------------------------------ WAL: the six Deserialize bodies

DeserializeCreateNewBlob(data) ==
    LET major == ReadU32(data, 0)
        minor == ReadU32(data, major.off)
        name == ReadString(data, minor.off)
        score == ReadFloat(data, name.off)
    IN  [tag_major_ |-> major.val, tag_minor_ |-> minor.val,
         blob_name_ |-> name.val, score_ |-> score.val]

RECURSIVE DeserializeBlocks(_, _, _, _)
\* The loop of DeserializeExtendBlob with i blocks still to read.
DeserializeBlocks(data, off, i, blocks) ==
    IF i = 0 THEN blocks
    ELSE LET major == ReadU32(data, off)
             minor == ReadU32(data, major.off)
             query == ReadRaw(data, minor.off, SizeofPoolQuery)
             toff == ReadU64(data, query.off)
             size == ReadU64(data, toff.off)
         IN  DeserializeBlocks(data, size.off, i - 1,
                 Append(blocks,
                        [bdev_major_ |-> major.val, bdev_minor_ |-> minor.val,
                         target_query_ |-> query.val,
                         target_offset_ |-> toff.val, size_ |-> size.val]))

DeserializeExtendBlob(data) ==
    LET major == ReadU32(data, 0)
        minor == ReadU32(data, major.off)
        name == ReadString(data, minor.off)
        num_blocks == ReadU32(data, name.off)
    IN  [tag_major_ |-> major.val, tag_minor_ |-> minor.val,
         blob_name_ |-> name.val,
         new_blocks_ |-> DeserializeBlocks(data, num_blocks.off,
                                           num_blocks.val, <<>>)]

DeserializeClearBlob(data) ==
    LET major == ReadU32(data, 0)
        minor == ReadU32(data, major.off)
        name == ReadString(data, minor.off)
    IN  [tag_major_ |-> major.val, tag_minor_ |-> minor.val,
         blob_name_ |-> name.val]

DeserializeDelBlob(data) ==
    LET major == ReadU32(data, 0)
        minor == ReadU32(data, major.off)
        name == ReadString(data, minor.off)
    IN  [tag_major_ |-> major.val, tag_minor_ |-> minor.val,
         blob_name_ |-> name.val]

DeserializeCreateTag(data) ==
    LET name == ReadString(data, 0)
        major == ReadU32(data, name.off)
        minor == ReadU32(data, major.off)
    IN  [tag_name_ |-> name.val, tag_major_ |-> major.val,
         tag_minor_ |-> minor.val]

DeserializeDelTag(data) ==
    LET name == ReadString(data, 0)
        major == ReadU32(data, name.off)
        minor == ReadU32(data, major.off)
    IN  [tag_name_ |-> name.val, tag_major_ |-> major.val,
         tag_minor_ |-> minor.val]

\* The Deserialize function that matches a payload struct.
Deserialize(struct, data) ==
    CASE struct = "TxnCreateNewBlob" -> DeserializeCreateNewBlob(data)
      [] struct = "TxnExtendBlob" -> DeserializeExtendBlob(data)
      [] struct = "TxnClearBlob" -> DeserializeClearBlob(data)
      [] struct = "TxnDelBlob" -> DeserializeDelBlob(data)
      [] struct = "TxnCreateTag" -> DeserializeCreateTag(data)
      [] struct = "TxnDelTag" -> DeserializeDelTag(data)

\* ------------------------------------------------------- WAL: the file

\* The payload struct each record type is logged with and decoded to.
StructOf(type) ==
    CASE type = kCreateNewBlob -> "TxnCreateNewBlob"
      [] type = kExtendBlob -> "TxnExtendBlob"
      [] type = kClearBlob -> "TxnClearBlob"
      [] type = kDelBlob -> "TxnDelBlob"
      [] type = kCreateTag -> "TxnCreateTag"
      [] type = kDelTag -> "TxnDelTag"

\* The three pieces WriteRecord hands to ofs_.write, in its order:
\* [u8 type], [u32 static_cast<uint32_t>(payload.size())], payload bytes.
RecordTypeBytes(type) == RawBytes(type, 1)

\* payload.size() written as the 8 bytes of a size_t.
RecordSizeBytes8(payload) == RawBytes(Len(payload), 8)

RecordSizeBytes(payload) == RawBytes(Len(payload), 4)

RecordPayloadBytes(payload) == SubSeq(payload, 1, RawValue(RecordSizeBytes(payload), 0, 4))

\* uint32_t payload_size as Load reads it.  A top byte of 128 or more makes
\* the value at least 2^31, more than any file of the model holds.
PayloadSizeAt(file, pos) ==
    IF file[pos + 4] >= 128 THEN 2147483647 ELSE RawValue(file, pos, 4)

RECURSIVE LoadFrom(_, _, _)
\* The loop of Load without the gcount test: a short payload is kept.
LoadFromKeepsPartial(file, pos, entries) ==
    IF pos >= Len(file) THEN entries
    ELSE IF Len(file) - (pos + 1) < 4 THEN entries
         ELSE LET payload_size == PayloadSizeAt(file, pos + 1)
                  last == IF Len(file) < pos + 5 + payload_size
                          THEN Len(file) ELSE pos + 5 + payload_size
              IN  LoadFrom(file, last,
                           Append(entries, [type |-> file[pos + 1],
                                            payload |-> SubSeq(file, pos + 6, last)]))

\* The while loop of Load with the read position at pos.
LoadFrom(file, pos, entries) ==
    IF pos >= Len(file) THEN entries                  \* ifs.peek() == EOF
    ELSE LET type_byte == file[pos + 1]
         IN  IF Len(file) - (pos + 1) < 4 THEN entries  \* size read short: break
             ELSE LET payload_size == PayloadSizeAt(file, pos + 1)
                      gcount == IF Len(file) - (pos + 5) < payload_size
                                THEN Len(file) - (pos + 5) ELSE payload_size
                  IN  IF gcount # payload_size THEN entries   \* break
                      ELSE LoadFrom(file, pos + 5 + payload_size,
                               Append(entries,
                                      [type |-> type_byte,
                                       payload |-> SubSeq(file, pos + 6,
                                                          pos + 5 + payload_size)]))

\* Load: no entries when the file does not exist (no path was ever opened).
Load(path, file) == IF path = "" THEN <<>> ELSE LoadFrom(file, 0, <<>>)

RECURSIVE OfsWrite(_, _, _, _)
\* std::ofstream::write: the bytes go to the stream buffer one by one, and
\* whenever the buffer is full (cap bytes) the stream first hands all of it
\* to the operating system.
OfsWrite(file, pending, bytes, cap) ==
    IF bytes = <<>> THEN [file |-> file, pending |-> pending]
    ELSE IF Len(pending) >= cap
         THEN OfsWrite(file \o pending, <<>>, bytes, cap)
         ELSE OfsWrite(file, Append(pending, Head(bytes)), Tail(bytes), cap)

\* A flush that writes nothing.
OfsFlushNothing(file, pending) == [file |-> file, pending |-> pending]

\* std::ofstream::flush: every buffered byte goes to the operating system.
OfsFlush(file, pending) == [file |-> file \o pending, pending |-> <<>>]

\* An open that does not truncate.
OpenTruncKeeps(file) == file

\* A truncation that stops half way.
OpenTruncHalf(file) == SubSeq(file, 1, Len(file) \div 2)

\* open(path, binary | trunc) of an existing file: its new contents.
OpenTrunc(file) == <<>>

\* open(path, binary | app) of an existing file: its contents are kept.
OpenApp(file) == file

\* ------------------------------------------------------------- the state

VARIABLES
    \* TransactionLog
    file_path_,     \* "" until Open names the file
    is_open,        \* ofs_.is_open()
    buffer_,        \* the reusable serialization buffer
    ofs_pending,    \* bytes ofs_ holds that the operating system has not got
    ofs_cap,        \* the size of ofs_'s buffer (implementation-defined)
    disk,           \* the file's bytes as the operating system holds them
    wal_pc,         \* where the writer stands inside WriteRecord or Truncate
    crashed,        \* the writer process has died
    entries,        \* what Load returned, when the last call was a Load
    load_done,      \* the last call was a Load
    wal_error,      \* the error the last call reported to its caller
    \* history of the run, read by the properties only
    logged,         \* records passed to Log on an open log since the file was last emptied
    synced,         \* how many of them a completed Sync or Close covers
    dropped,        \* some Log call found the log not open
    nlog,           \* Log calls made
    truncated,      \* a Truncate has emptied the file
    trunc_disk,     \* disk when the Truncate in progress was called
    trunc_pending,  \* ofs_pending when the Truncate in progress was called
    capacity_bytes_, \* the capacity Open was called with
    reopen_at,      \* history: Len(logged) when the file was re-opened after a crash, else -1
    reopen_disk,    \* history: the file's bytes when it was re-opened after a crash
    \* Heap<true>
    heap_,          \* the heap offset
    max_size_,      \* the maximum heap size
    hpc,            \* per thread: its position inside Allocate
    hreq,           \* per thread: the size and align it was called with
    hloc,           \* per thread: off, aligned_off, end_off
    hres,           \* per thread: the outcome of its last Allocate
    hcalls,         \* Allocate calls started
    hcommitted,     \* history: the allocations that succeeded, in commit order
    \* BuddyAllocator
    region_size,    \* bytes of the data region the allocator was initialised over
    big_heap,       \* the bump heap over the data region: [heap_, max_size_]
    small_pages,    \* per small list: the free blocks, head first
    large_pages,    \* per large list: the free blocks, head first
    live,           \* the blocks handed out and not yet freed
    last_call,      \* the last call and what it returned
    bcalls,         \* Allocate and Free calls made
    discarded,      \* history: bytes dropped as remainders too small to list
    out_of_region,  \* history: some write went outside the data region
    \* mpsc_ring_buffer
    m_head,         \* head_: cells consumed
    m_tail,         \* tail_: cells claimed by producers
    cells,          \* per slot: the sequence number and the value stored
    ppc,            \* per producer: where it stands inside Emplace
    ptick,          \* per producer: the tail value it claimed
    psent,          \* per producer: Emplace calls completed
    pwaited,        \* per producer: its current Emplace found the buffer full
    cpc,            \* where the consumer stands inside Pop
    c_head,         \* the head value the consumer's Pop works on
    c_val,          \* the value the consumer's Pop has read
    popped,         \* history: the values Pop returned, in order
    pop_last,       \* what the last Pop returned
    emplaced,       \* history: per claimed tail value, the item written for it
    \* MultiProcessAllocator
    sh_root,        \* the root bump heap's offset
    sh_pblk,        \* per process: its ProcessBlock
    sh_tblk,        \* per process and thread: its ThreadBlock
    sh_allocs,      \* history: the allocations returned
    sh_calls,       \* calls made
    \* pre::ring_queue
    head_,          \* elements popped since construction or clear
    tail_,          \* elements pushed since construction or clear
    data_,          \* the COUNT entries
    rq_fifo,        \* history: the elements pushed and not yet popped
    rq_res,         \* the last call and what it returned or threw
    \* ArenaAllocator
    ar_heap,        \* heap_: the arena's bump heap
    ar_res,         \* the last call and what it returned or threw
    ar_reset_used,  \* history: a Reset found the heap offset above 0
    \* BaseAllocator over a core allocator, FullPtr, OffsetPointer
    al_id_,         \* the allocator's id_
    al_buffer_,     \* the address of the allocator's buffer_
    al_buffer_size_, \* buffer_size_
    al_core,        \* the core allocator: offsets it has handed out
    al_freed,       \* the core allocator: offsets given to FreeOffsetNoNullCheck
    al_res,         \* what the last call returned or threw
    mk_off_,        \* off_ of an OffsetPointer
    mk_in,          \* history: the value that OffsetPointer was constructed with
    mk_ops,         \* history: the calls made on it since
    \* PosixShmMmap
    shm_region,     \* the named region exists in the operating system
    shm_backend,    \* per backend object: its flags and what it holds
    shm_calls,      \* history: the system calls the backends made
    \* DefaultScheduler::AdjustPolling on a periodic task
    true_period_ns_, \* RunContext::true_period_ns_
    yield_time_us_, \* RunContext::yield_time_us_
    did_work_,      \* RunContext::did_work_
    sched_last      \* history: did_work_ at the last AdjustPolling, yield_time_us_ before it

\* What a call other than Log, Sync, Close and Truncate leaves alone.
walHistory == <<ofs_cap, logged, synced, dropped, nlog, truncated, trunc_disk,
                trunc_pending, reopen_at, reopen_disk>>

walVars == <<file_path_, capacity_bytes_, is_open, buffer_, ofs_pending, disk, wal_pc, crashed,
             entries, load_done, wal_error, walHistory>>

heapVars == <<heap_, max_size_, hpc, hreq, hloc, hres, hcalls, hcommitted>>

buddyVars == <<region_size, big_heap, small_pages, large_pages, live, last_call,
               bcalls, discarded, out_of_region>>

mpscVars == <<m_head, m_tail, cells, ppc, ptick, psent, pwaited, cpc, c_head,
              c_val, popped, pop_last, emplaced>>

shardVars == <<sh_root, sh_pblk, sh_tblk, sh_allocs, sh_calls>>

ringQueueVars == <<head_, tail_, data_, rq_fifo, rq_res>>

arenaVars == <<ar_heap, ar_res, ar_reset_used>>

pointerVars == <<al_id_, al_buffer_, al_buffer_size_, al_core, al_freed, al_res,
                 mk_off_, mk_in, mk_ops>>

shmVars == <<shm_region, shm_backend, shm_calls>>

schedulerVars == <<true_period_ns_, yield_time_us_, did_work_, sched_last>>

vars == <<walVars, heapVars, buddyVars, mpscVars, shardVars, ringQueueVars,
          arenaVars, pointerVars, shmVars, schedulerVars>>

\* What the operations of one component leave alone.
notWal == <<heapVars, buddyVars, mpscVars, shardVars, ringQueueVars, arenaVars,
    pointerVars, shmVars, schedulerVars>>

notHeap == <<walVars, buddyVars, mpscVars, shardVars, ringQueueVars, arenaVars,
    pointerVars, shmVars, schedulerVars>>

notBuddy == <<walVars, heapVars, mpscVars, shardVars, ringQueueVars, arenaVars,
    pointerVars, shmVars, schedulerVars>>

notMpsc == <<walVars, heapVars, buddyVars, shardVars, ringQueueVars, arenaVars,
    pointerVars, shmVars, schedulerVars>>

notShard == <<walVars, heapVars, buddyVars, mpscVars, ringQueueVars, arenaVars,
    pointerVars, shmVars, schedulerVars>>

notRingQueue == <<walVars, heapVars, buddyVars, mpscVars, shardVars, arenaVars,
    pointerVars, shmVars, schedulerVars>>

notArena == <<walVars, heapVars, buddyVars, mpscVars, shardVars, ringQueueVars,
    pointerVars, shmVars, schedulerVars>>

notPointer == <<walVars, heapVars, buddyVars, mpscVars, shardVars, ringQueueVars,
    arenaVars, shmVars, schedulerVars>>

notShm == <<walVars, heapVars, buddyVars, mpscVars, shardVars, ringQueueVars,
    arenaVars, pointerVars, schedulerVars>>

notScheduler == <<walVars, heapVars, buddyVars, mpscVars, shardVars, ringQueueVars,
    arenaVars, pointerVars, shmVars>>

\* --------------------------------------------------------- WAL: the inputs

\* The sizes of ofs_'s buffer the model runs with: one smaller than any
\* record, so that records straddle its end, and one that holds the whole
\* run, as the default buffer of a C++ library holds many small records.
OfsBufSmall == 3
OfsBufLarge == 8192

\* The capacity_bytes Open is called with.
CapacityBytes == 32

TagName == <<116>>
BlobName == <<98>>

Block1 == [bdev_major_ |-> 3, bdev_minor_ |-> 0,
           target_query_ |-> [i \in 1..SizeofPoolQuery |-> 7 + i],
           target_offset_ |-> 65536, size_ |-> 4096]

\* The records a writer logs: one of every type, with an empty and a
\* non-empty name, ids and offsets of more than one byte, and a block.
\* 1056964608 is the bit pattern of 0.5f.
TxnInputs ==
    { [type |-> kCreateTag,
       txn |-> [tag_name_ |-> TagName, tag_major_ |-> 1, tag_minor_ |-> 2]],
      [type |-> kCreateNewBlob,
       txn |-> [tag_major_ |-> 1, tag_minor_ |-> 2, blob_name_ |-> BlobName,
                score_ |-> 1056964608]],
      [type |-> kExtendBlob,
       txn |-> [tag_major_ |-> 1, tag_minor_ |-> 2, blob_name_ |-> BlobName,
                new_blocks_ |-> <<Block1>>]],
      [type |-> kClearBlob,
       txn |-> [tag_major_ |-> 258, tag_minor_ |-> 0, blob_name_ |-> <<>>]],
      [type |-> kDelBlob,
       txn |-> [tag_major_ |-> 1, tag_minor_ |-> 2, blob_name_ |-> BlobName]],
      [type |-> kDelTag,
       txn |-> [tag_name_ |-> TagName, tag_major_ |-> 1, tag_minor_ |-> 2]] }

\* -------------------------------------------------------- WAL: the actions

\* Any call but Load leaves no Load result behind.
NoLoadResult == entries' = <<>> /\ load_done' = FALSE

\* TransactionLog::Open, called on a log that is not open.
Open ==
    /\ ~crashed /\ wal_pc = "idle" /\ ~is_open
    /\ file_path_' = "wal"
    /\ capacity_bytes_' = CapacityBytes
    /\ is_open' = TRUE
    /\ disk' = OpenApp(disk)
    /\ wal_error' = "none"
    /\ NoLoadResult
    /\ UNCHANGED <<buffer_, ofs_pending, wal_pc, crashed, walHistory>>

\* WriteRecord's guard: nothing is written unless the file is open.
WriteRecordWrites(open) == open

\* Log(type, txn): serialize into buffer_, then WriteRecord up to and
\* including its first ofs_.write (the type byte).  On a log that is not
\* open WriteRecord returns at once.
Log(in) ==
    /\ ~crashed /\ wal_pc = "idle" /\ nlog < MaxLog
    /\ nlog' = nlog + 1
    /\ buffer_' = Serialize(StructOf(in.type), in.txn)
    /\ wal_error' = "none"
    /\ IF WriteRecordWrites(is_open)
       THEN /\ LET w == OfsWrite(disk, ofs_pending, RecordTypeBytes(in.type),
                                 ofs_cap)
               IN  disk' = w.file /\ ofs_pending' = w.pending
            /\ wal_pc' = "write_size"
       ELSE UNCHANGED <<disk, ofs_pending, wal_pc>>
    /\ logged' = IF is_open THEN Append(logged, in) ELSE logged
    /\ dropped' = (dropped \/ ~is_open)
    /\ NoLoadResult
    /\ UNCHANGED <<file_path_, capacity_bytes_, is_open, crashed, ofs_cap, reopen_at,
                   reopen_disk, synced, truncated,
                   trunc_disk, trunc_pending>>

\* WriteRecord's second ofs_.write: payload_size.
WriteSize ==
    /\ ~crashed /\ wal_pc = "write_size"
    /\ LET w == OfsWrite(disk, ofs_pending, RecordSizeBytes(buffer_), ofs_cap)
       IN  disk' = w.file /\ ofs_pending' = w.pending
    /\ wal_pc' = "write_payload"
    /\ NoLoadResult
    /\ UNCHANGED <<file_path_, capacity_bytes_, is_open, buffer_, crashed, wal_error, walHistory>>

\* WriteRecord's third ofs_.write: the payload; Log returns.
WritePayload ==
    /\ ~crashed /\ wal_pc = "write_payload"
    /\ LET w == OfsWrite(disk, ofs_pending, RecordPayloadBytes(buffer_), ofs_cap)
       IN  disk' = w.file /\ ofs_pending' = w.pending
    /\ wal_pc' = "idle"
    /\ NoLoadResult
    /\ UNCHANGED <<file_path_, capacity_bytes_, is_open, buffer_, crashed, wal_error, walHistory>>

\* Sync without its flush.
SyncNoFlush ==
    /\ ~crashed /\ wal_pc = "idle"
    /\ synced' = IF is_open THEN Len(logged) ELSE synced
    /\ wal_error' = "none"
    /\ NoLoadResult
    /\ UNCHANGED <<file_path_, capacity_bytes_, is_open, buffer_, wal_pc, crashed, ofs_cap, reopen_at,
                   reopen_disk, disk,
                   ofs_pending, logged, dropped, nlog, truncated, trunc_disk,
                   trunc_pending>>

\* TransactionLog::Sync.
Sync ==
    /\ ~crashed /\ wal_pc = "idle"
    /\ IF is_open
       THEN LET f == OfsFlush(disk, ofs_pending)
            IN  /\ disk' = f.file /\ ofs_pending' = f.pending
                /\ synced' = Len(logged)
       ELSE UNCHANGED <<disk, ofs_pending, synced>>
    /\ wal_error' = "none"
    /\ NoLoadResult
    /\ UNCHANGED <<file_path_, capacity_bytes_, is_open, buffer_, wal_pc, crashed, ofs_cap, reopen_at,
                   reopen_disk,
                   logged, dropped, nlog, truncated, trunc_disk, trunc_pending>>

\* TransactionLog::Close on an open log: flush, then close the handle.
Close ==
    /\ ~crashed /\ wal_pc = "idle" /\ is_open
    /\ LET f == OfsFlush(disk, ofs_pending)
       IN  disk' = f.file /\ ofs_pending' = f.pending
    /\ synced' = Len(logged)
    /\ is_open' = FALSE
    /\ wal_error' = "none"
    /\ NoLoadResult
    /\ UNCHANGED <<file_path_, capacity_bytes_, buffer_, wal_pc, crashed, ofs_cap, reopen_at,
                   reopen_disk, logged,
                   dropped, nlog, truncated, trunc_disk, trunc_pending>>

\* TransactionLog::Truncate is entered.
TruncateCall ==
    /\ ~crashed /\ wal_pc = "idle"
    /\ wal_pc' = "trunc_close"
    /\ trunc_disk' = disk
    /\ trunc_pending' = ofs_pending
    /\ wal_error' = "none"
    /\ NoLoadResult
    /\ UNCHANGED <<file_path_, capacity_bytes_, is_open, buffer_, ofs_pending, disk, crashed,
                   ofs_cap, reopen_at,
                   reopen_disk, logged, synced, dropped, nlog, truncated>>

\* Truncate: if (ofs_.is_open()) ofs_.close(); the close writes what is
\* still buffered.
TruncateClose ==
    /\ ~crashed /\ wal_pc = "trunc_close"
    /\ IF is_open
       THEN LET f == OfsFlush(disk, ofs_pending)
            IN  disk' = f.file /\ ofs_pending' = f.pending
       ELSE UNCHANGED <<disk, ofs_pending>>
    /\ is_open' = FALSE
    /\ wal_pc' = "trunc_open_trunc"
    /\ NoLoadResult
    /\ UNCHANGED <<file_path_, capacity_bytes_, buffer_, crashed, wal_error, walHistory>>

\* Truncate: ofs_.open(file_path_, binary | trunc).  With no path the open
\* fails and the file is untouched.
TruncateOpenTrunc ==
    /\ ~crashed /\ wal_pc = "trunc_open_trunc"
    /\ IF file_path_ # ""
       THEN /\ disk' = OpenTrunc(disk)
            /\ is_open' = TRUE
            /\ logged' = <<>>
            /\ synced' = 0
            /\ truncated' = TRUE
       ELSE UNCHANGED <<disk, is_open, logged, synced, truncated>>
    /\ wal_pc' = "trunc_close2"
    /\ NoLoadResult
    /\ UNCHANGED <<file_path_, capacity_bytes_, buffer_, ofs_pending, crashed, wal_error,
                   ofs_cap, reopen_at,
                   reopen_disk, dropped, nlog, trunc_disk, trunc_pending>>

\* Truncate: ofs_.close().
TruncateClose2 ==
    /\ ~crashed /\ wal_pc = "trunc_close2"
    /\ is_open' = FALSE
    /\ wal_pc' = "trunc_open_app"
    /\ NoLoadResult
    /\ UNCHANGED <<file_path_, capacity_bytes_, buffer_, ofs_pending, disk, crashed, wal_error,
                   walHistory>>

\* Truncate: ofs_.open(file_path_, binary | app); Truncate returns.
TruncateOpenApp ==
    /\ ~crashed /\ wal_pc = "trunc_open_app"
    /\ is_open' = (file_path_ # "")
    /\ disk' = OpenApp(disk)
    /\ wal_pc' = "idle"
    /\ trunc_disk' = <<>>
    /\ trunc_pending' = <<>>
    /\ NoLoadResult
    /\ UNCHANGED <<file_path_, capacity_bytes_, buffer_, ofs_pending, crashed, wal_error,
                   ofs_cap, reopen_at,
                   reopen_disk, logged, synced, dropped, nlog, truncated>>

\* TransactionLog::Load.  It reads the file by its path, whoever calls it:
\* the writer, or the process that recovers after a crash.
LoadEntries ==
    /\ entries' = Load(file_path_, disk)
    /\ load_done' = TRUE
    /\ wal_error' = "none"
    /\ UNCHANGED <<file_path_, capacity_bytes_, is_open, buffer_, ofs_pending, disk, wal_pc,
                   crashed, walHistory>>

\* The writer process dies: its memory, and with it what its stream still
\* buffered, is lost.  A death inside the close of Truncate may leave any
\* part of the buffered bytes written.
Crash ==
    /\ ~crashed
    /\ crashed' = TRUE
    /\ is_open' = FALSE
    /\ buffer_' = <<>>
    /\ ofs_pending' = <<>>
    /\ \E k \in 0..Len(ofs_pending) :
         /\ (k > 0 => (wal_pc = "trunc_close" /\ is_open))
         /\ disk' = disk \o SubSeq(ofs_pending, 1, k)
    /\ NoLoadResult
    /\ UNCHANGED <<file_path_, capacity_bytes_, wal_pc, wal_error, walHistory>>

WalInit ==
    /\ file_path_ = ""
    /\ is_open = FALSE
    /\ buffer_ = <<>>
    /\ ofs_pending = <<>>
    /\ ofs_cap \in {OfsBufSmall, OfsBufLarge}
    /\ disk = <<>>
    /\ wal_pc = "idle"
    /\ crashed = FALSE
    /\ entries = <<>>
    /\ load_done = FALSE
    /\ wal_error = "none"
    /\ logged = <<>>
    /\ synced = 0
    /\ dropped = FALSE
    /\ nlog = 0
    /\ truncated = FALSE
    /\ trunc_disk = <<>>
    /\ trunc_pending = <<>>
    /\ capacity_bytes_ = 0
    /\ reopen_at = -1
    /\ reopen_disk = <<>>

HeapIdle ==
    /\ heap_ = 0
    /\ max_size_ = 0
    /\ hpc = <<>>
    /\ hreq = <<>>
    /\ hloc = <<>>
    /\ hres = <<>>
    /\ hcalls = 0
    /\ hcommitted = <<>>

\* No BuddyAllocator has been made.
BuddyIdle ==
    /\ region_size = 0
    /\ big_heap = [heap_ |-> 0, max_size_ |-> 0]
    /\ small_pages = <<>>
    /\ large_pages = <<>>
    /\ live = {}
    /\ last_call = [op |-> "none"]
    /\ bcalls = 0
    /\ discarded = 0
    /\ out_of_region = FALSE

\* No mpsc_ring_buffer has been made.
MpscIdle ==
    /\ m_head = 0
    /\ m_tail = 0
    /\ cells = <<>>
    /\ ppc = <<>>
    /\ ptick = <<>>
    /\ psent = <<>>
    /\ pwaited = <<>>
    /\ cpc = "none"
    /\ c_head = 0
    /\ c_val = <<>>
    /\ popped = <<>>
    /\ pop_last = "none"
    /\ emplaced = <<>>

\* No MultiProcessAllocator has been made.
ShardIdle ==
    /\ sh_root = 0
    /\ sh_pblk = <<>>
    /\ sh_tblk = <<>>
    /\ sh_allocs = {}
    /\ sh_calls = 0

\* No pre::ring_queue has been made.
RingQueueIdle ==
    /\ head_ = 0
    /\ tail_ = 0
    /\ data_ = <<>>
    /\ rq_fifo = <<>>
    /\ rq_res = <<>>

\* No ArenaAllocator has been made.
ArenaIdle ==
    /\ ar_heap = <<>>
    /\ ar_res = <<>>
    /\ ar_reset_used = FALSE

BaseAllocatorIdle ==
    /\ al_id_ = 0
    /\ al_buffer_ = 0
    /\ al_buffer_size_ = 0
    /\ al_core = {}
    /\ al_freed = {}
    /\ al_res = <<>>

OffsetPointerIdle ==
    /\ mk_off_ = 0
    /\ mk_in = 0
    /\ mk_ops = <<>>

PointerIdle == BaseAllocatorIdle /\ OffsetPointerIdle

ShmIdle ==
    /\ shm_region = FALSE
    /\ shm_backend = <<>>
    /\ shm_calls = {}

SchedulerIdle ==
    /\ true_period_ns_ = 0
    /\ yield_time_us_ = 0
    /\ did_work_ = FALSE
    /\ sched_last = <<>>

\* The components added after the arena allocator are not in use.
LastIdle == PointerIdle /\ ShmIdle /\ SchedulerIdle

\* The components added after the mpsc_ring_buffer are not in use.
LaterIdle == ShardIdle /\ RingQueueIdle /\ ArenaIdle /\ LastIdle

\* The components added after the buddy allocator are not in use.
RestIdle == MpscIdle /\ LaterIdle

InitWal == WalInit /\ HeapIdle /\ BuddyIdle /\ RestIdle

NextWal ==
    \/ (Open /\ UNCHANGED notWal)
    \/ (\E in \in TxnInputs : Log(in) /\ UNCHANGED notWal)
    \/ (WriteSize /\ UNCHANGED notWal)
    \/ (WritePayload /\ UNCHANGED notWal)
    \/ (Sync /\ UNCHANGED notWal)
    \/ (Close /\ UNCHANGED notWal)
    \/ (TruncateCall /\ UNCHANGED notWal)
    \/ (TruncateClose /\ UNCHANGED notWal)
    \/ (TruncateOpenTrunc /\ UNCHANGED notWal)
    \/ (TruncateClose2 /\ UNCHANGED notWal)
    \/ (TruncateOpenApp /\ UNCHANGED notWal)
    \/ (LoadEntries /\ UNCHANGED notWal)
    \/ (Crash /\ UNCHANGED notWal)

SpecWal == InitWal /\ [][NextWal]_vars

\* ----------------------------------------------------- WAL: the catalog

\* The catalog a writer keeps in memory and recovery rebuilds: the tags, and
\* the blobs with their score and block list.
EmptyCatalog == [tags |-> {}, blobs |-> {}]

BlobKey(txn) == <<txn.tag_major_, txn.tag_minor_, txn.blob_name_>>

\* The effect of one logged mutation on the catalog.
Apply(cat, rec) ==
    LET txn == rec.txn
        others == {b \in cat.blobs : b.key # BlobKey(txn)}
        mine == {b \in cat.blobs : b.key = BlobKey(txn)}
    IN  CASE rec.type = kCreateTag ->
               [cat EXCEPT !.tags = @ \cup {<<txn.tag_name_, txn.tag_major_, txn.tag_minor_>>}]
          [] rec.type = kDelTag ->
               [tags |-> cat.tags \ {<<txn.tag_name_, txn.tag_major_, txn.tag_minor_>>},
                blobs |-> {b \in cat.blobs :
                             <<b.key[1], b.key[2]>> # <<txn.tag_major_, txn.tag_minor_>>}]
          [] rec.type = kCreateNewBlob ->
               [cat EXCEPT !.blobs = others \cup
                   {[key |-> BlobKey(txn), score |-> txn.score_, blocks |-> <<>>]}]
          [] rec.type = kExtendBlob ->
               [cat EXCEPT !.blobs = others \cup
                   (IF mine = {}
                    THEN {[key |-> BlobKey(txn), score |-> 0, blocks |-> txn.new_blocks_]}
                    ELSE {[b EXCEPT !.blocks = @ \o txn.new_blocks_] : b \in mine})]
          [] rec.type = kClearBlob ->
               [cat EXCEPT !.blobs = others \cup
                   {[b EXCEPT !.blocks = <<>>] : b \in mine}]
          [] rec.type = kDelBlob -> [cat EXCEPT !.blobs = others]

RECURSIVE ReplayFrom(_, _, _)
ReplayFrom(cat, recs, i) ==
    IF i > Len(recs) THEN cat ELSE ReplayFrom(Apply(cat, recs[i]), recs, i + 1)

\* The catalog after applying recs, in order, to an empty catalog.
Replay(recs) == ReplayFrom(EmptyCatalog, recs, 1)

\* ------------------------------------------- WAL: what the properties read

\* The bytes WriteRecord writes for one logged record.
EncodeRecord(in) ==
    LET payload == Serialize(StructOf(in.type), in.txn)
    IN  RecordTypeBytes(in.type) \o RecordSizeBytes(payload)
            \o RecordPayloadBytes(payload)

RECURSIVE EncodeFirst(_, _)
\* The bytes of the first n records of recs.
EncodeFirst(recs, n) ==
    IF n = 0 THEN <<>> ELSE EncodeFirst(recs, n - 1) \o EncodeRecord(recs[n])

\* The entry Load returns for a logged record, undecoded.
RawEntry(in) == [type |-> in.type, payload |-> Serialize(StructOf(in.type), in.txn)]

\* An entry decoded with the Deserialize function that matches its type.
DecodeEntry(e) == [type |-> e.type, txn |-> Deserialize(StructOf(e.type), e.payload)]

DecodeAll(es) == [i \in 1..Len(es) |-> DecodeEntry(es[i])]

IsPrefix(a, b) == Len(a) <= Len(b) /\ a = SubSeq(b, 1, Len(a))

\* How many of the logged records are on disk in full.
CompleteOnDisk ==
    Cardinality({n \in 1..Len(logged) : Len(EncodeFirst(logged, n)) <= Len(disk)})

\* The file ends with a partial record: it goes past the last complete
\* record and stops short of the end of the next one.
TornTail ==
    /\ CompleteOnDisk < Len(logged)
    /\ Len(disk) > Len(EncodeFirst(logged, CompleteOnDisk))
    /\ IsPrefix(disk, EncodeFirst(logged, CompleteOnDisk + 1))

InTruncate ==
    wal_pc \in {"trunc_close", "trunc_open_trunc", "trunc_close2", "trunc_open_app"}

\* ------------------------------------------------------------ WAL: claims

C2_TornTailDropped ==
    (load_done /\ TornTail) =>
        /\ Len(entries) = CompleteOnDisk
        /\ \A i \in 1..Len(entries) : entries[i] = RawEntry(logged[i])
        /\ wal_error = "none"

\* A header cut short after a complete record.
C2_Witness ==
    /\ load_done /\ TornTail /\ CompleteOnDisk >= 1
    /\ Len(disk) - Len(EncodeFirst(logged, CompleteOnDisk)) < 5
    /\ Len(entries) = CompleteOnDisk

\* A payload shorter than its declared size after a complete record.
C2_WitnessShortPayload ==
    /\ load_done /\ TornTail /\ CompleteOnDisk >= 1
    /\ Len(disk) - Len(EncodeFirst(logged, CompleteOnDisk)) > 5

WriterLoggedAll == ~dropped /\ ~truncated

C6_TruncateEmptiesLog ==
    (truncated /\ load_done) =>
        /\ Len(entries) <= Len(logged)
        /\ \A i \in 1..Len(entries) : entries[i] = RawEntry(logged[i])
        /\ (synced = Len(logged) => Len(entries) = Len(logged))

\* A record logged and synced before the Truncate is gone, one logged and
\* synced after it is returned.
C6_Witness ==
    /\ truncated /\ load_done /\ nlog = 2 /\ ~dropped
    /\ Len(logged) = 1 /\ synced = 1 /\ Len(entries) = 1

\* Truncate has just returned.
C6_WitnessEmpty ==
    /\ truncated /\ load_done /\ nlog = 1 /\ ~dropped /\ wal_pc = "idle"
    /\ logged = <<>> /\ entries = <<>> /\ is_open

\* C7 as stated: after a crash inside Truncate the file is empty or is what
\* it was when Truncate was called.
C7_TruncateCrashEmptyOrOld ==
    (crashed /\ InTruncate) => (disk = <<>> \/ disk = trunc_disk)

\* C7 as the code has it: after a crash inside Truncate the file is empty, or
\* is what it was when Truncate was called followed by a prefix (none, part or
\* all) of the bytes the stream still buffered then.
C7_TruncateCrashEmptyOrFlushed ==
    (crashed /\ InTruncate) =>
        \/ disk = <<>>
        \/ \E k \in 0..Len(trunc_pending) :
             disk = trunc_disk \o SubSeq(trunc_pending, 1, k)

\* The close inside Truncate wrote the buffered record, then the writer died.
C7_Witness ==
    /\ crashed /\ wal_pc = "trunc_open_trunc"
    /\ trunc_disk # <<>> /\ trunc_pending # <<>>
    /\ disk = trunc_disk \o trunc_pending

\* C8: a Log call that finds the log not open reports IoError.
C8_LogOnClosedLogRaises ==
    [][(~dropped /\ dropped') => wal_error' = "IoError"]_vars

\* ------------------------------------------------------------ Heap<true>

\* size_t is modelled SizeBits wide: every size_t result is taken % Word, as
\* the machine takes it % 2^64.
SizeBits == 4

Word == 2 ^ SizeBits

\* The threads that share the heap, and the Allocate calls of one run.
NThreads == 2
MaxCalls == 2

Threads == 1..NThreads

\* Heap(initial_offset, max_size) and Heap::Init: the sizes a heap is made
\* with, and the offsets it starts at, none beyond max_size.
MaxSizes == {Word - 4, Word - 1}

InitialOffsets(max_size) == {0, 5, max_size}

\* What Allocate is called with: small and zero sizes, sizes close to the
\* largest size_t, the default alignment 8, alignments that are no power of
\* two, and 0.
Sizes == {0, 1, 4, Word - 4, Word - 1}

Aligns == {0, 1, 3, 8}

\* size_t division.  Division by zero is undefined: where it does not trap,
\* the quotient is whatever the machine leaves.
DivOutcomes(n, d) == IF d = 0 THEN 0..(Word - 1) ELSE {n \div d}

DivTraps(d) == d = 0

\* Heap::AlignSize: ((size + align - 1) / align) * align, in size_t; the
\* values it can return.
AlignSize(size, align) ==
    { (q * align) % Word :
        q \in DivOutcomes((size + align + Word - 1) % Word, align) }

\* end_off = aligned_off + size, in size_t.
EndOff(aligned_off, size) == (aligned_off + size) % Word

\* The check with its bound one too far.
EndExceedsMaxOffByOne(end_off, max_size) == end_off > max_size + 1

\* if (end_off > max_size_)
EndExceedsMax(end_off, max_size) == end_off > max_size

NoRequest == [size |-> 0, align |-> 0]
NoLocals == [off |-> 0, aligned_off |-> 0, end_off |-> 0]
NoResult == [kind |-> "none", off |-> 0, size |-> 0]

\* Allocate(size, align) is entered by thread t.
AllocateCall(t, size, align) ==
    /\ hpc[t] = "idle" /\ hcalls < MaxCalls
    /\ hcalls' = hcalls + 1
    /\ hreq' = [hreq EXCEPT ![t] = [size |-> size, align |-> align]]
    /\ hres' = [hres EXCEPT ![t] = NoResult]
    /\ hpc' = [hpc EXCEPT ![t] = "load"]
    /\ UNCHANGED <<heap_, max_size_, hloc, hcommitted>>

\* The loop body: off = heap_.load(), the alignment, end_off and the check
\* against max_size_, which throws OUT_OF_MEMORY.
AllocateLoad(t) ==
    /\ hpc[t] = "load"
    /\ \E aligned_off \in AlignSize(heap_, hreq[t].align) :
         LET end_off == EndOff(aligned_off, hreq[t].size)
         IN  IF EndExceedsMax(end_off, max_size_)
             THEN /\ hres' = [hres EXCEPT ![t] =
                        [kind |-> "OUT_OF_MEMORY", off |-> 0, size |-> hreq[t].size]]
                  /\ hpc' = [hpc EXCEPT ![t] = "idle"]
                  /\ hloc' = [hloc EXCEPT ![t] = NoLocals]
                  /\ hreq' = [hreq EXCEPT ![t] = NoRequest]
             ELSE /\ hloc' = [hloc EXCEPT ![t] =
                        [off |-> heap_, aligned_off |-> aligned_off,
                         end_off |-> end_off]]
                  /\ hpc' = [hpc EXCEPT ![t] = "cas"]
                  /\ UNCHANGED <<hres, hreq>>
    /\ UNCHANGED <<heap_, max_size_, hcalls, hcommitted>>

\* The division of AlignSize traps on align = 0: the thread is killed.
AllocateDivTrap(t) ==
    /\ hpc[t] = "load" /\ DivTraps(hreq[t].align)
    /\ hres' = [hres EXCEPT ![t] = [kind |-> "trap", off |-> 0, size |-> hreq[t].size]]
    /\ hpc' = [hpc EXCEPT ![t] = "dead"]
    /\ hreq' = [hreq EXCEPT ![t] = NoRequest]
    /\ UNCHANGED <<heap_, max_size_, hloc, hcalls, hcommitted>>

\* heap_.compare_exchange_weak(off, end_off) succeeds: Allocate returns
\* aligned_off.
AllocateCas(t) ==
    /\ hpc[t] = "cas" /\ heap_ = hloc[t].off
    /\ heap_' = hloc[t].end_off
    /\ hres' = [hres EXCEPT ![t] =
           [kind |-> "ok", off |-> hloc[t].aligned_off, size |-> hreq[t].size]]
    /\ hpc' = [hpc EXCEPT ![t] = "idle"]
    /\ hloc' = [hloc EXCEPT ![t] = NoLocals]
    /\ hreq' = [hreq EXCEPT ![t] = NoRequest]
    /\ hcommitted' = Append(hcommitted,
           [from |-> hloc[t].off, off |-> hloc[t].aligned_off,
            size |-> hreq[t].size, align |-> hreq[t].align])
    /\ UNCHANGED <<max_size_, hcalls>>

\* compare_exchange_weak fails, because another thread moved heap_ or
\* spuriously: the loop runs again.
AllocateCasFail(t) ==
    /\ hpc[t] = "cas"
    /\ hpc' = [hpc EXCEPT ![t] = "load"]
    /\ hloc' = [hloc EXCEPT ![t] = NoLocals]
    /\ UNCHANGED <<heap_, max_size_, hreq, hres, hcalls, hcommitted>>

\* Heap(initial_offset, max_size), no thread inside Allocate.
HeapInit ==
    /\ max_size_ \in MaxSizes
    /\ heap_ \in InitialOffsets(max_size_)
    /\ hpc = [t \in Threads |-> "idle"]
    /\ hreq = [t \in Threads |-> NoRequest]
    /\ hloc = [t \in Threads |-> NoLocals]
    /\ hres = [t \in Threads |-> NoResult]
    /\ hcalls = 0
    /\ hcommitted = <<>>

\* No TransactionLog takes part in the runs of the heap.
WalIdle == WalInit /\ ofs_cap = OfsBufLarge

InitHeap == WalIdle /\ HeapInit /\ BuddyIdle /\ RestIdle

NextHeap ==
    \/ (\E t \in Threads, size \in Sizes, align \in Aligns :
          AllocateCall(t, size, align) /\ UNCHANGED notHeap)
    \/ (\E t \in Threads : AllocateLoad(t) /\ UNCHANGED notHeap)
    \/ (\E t \in Threads : AllocateDivTrap(t) /\ UNCHANGED notHeap)
    \/ (\E t \in Threads : AllocateCas(t) /\ UNCHANGED notHeap)
    \/ (\E t \in Threads : AllocateCasFail(t) /\ UNCHANGED notHeap)

SpecHeap == InitHeap /\ [][NextHeap]_vars

\* ------------------------------------------------------ Heap: properties

\* The alignments Allocate documents: the powers of two.
IsPowerOfTwo(align) == \E k \in 0..(SizeBits - 1) : align = 2 ^ k

\* The end of the request in unbounded arithmetic: off rounded up to a
\* multiple of align, plus size.
AlignedEnd(off, size, align) == ((off + align - 1) \div align) * align + size

\* Thread t's Allocate returns or throws in this step.
Completes(t) == hpc[t] \in {"load", "cas"} /\ hpc'[t] = "idle"

\* C9: in every reachable state of a heap made with initial_offset <=
\* max_size, whatever Allocate calls have run or are running, with whatever
\* sizes and alignments, the heap offset is between 0 and max_size.
C9_OffsetWithinMax == heap_ \in 0..max_size_

\* An Allocate whose end_off wrapped around size_t has committed (the offset
\* moved back below the offset it returned), next to a failed one.
C9_Witness ==
    /\ \E t \in Threads :
         /\ hres[t].kind = "ok"
         /\ hres[t].off + hres[t].size >= Word
         /\ heap_ < hres[t].off
    /\ \E t \in Threads : hres[t].kind = "OUT_OF_MEMORY"

\* C10: an Allocate, with a power-of-two alignment, whose aligned end would
\* exceed max_size fails with OutOfMemory and leaves the heap offset as it
\* was, and one whose aligned end fits succeeds, whatever the other threads
\* do meanwhile.
C10_ExceedingRequestFails ==
    [][\A t \in Threads :
         (Completes(t) /\ IsPowerOfTwo(hreq[t].align)) =>
            IF AlignedEnd(heap_, hreq[t].size, hreq[t].align) > max_size_
            THEN hres'[t].kind = "OUT_OF_MEMORY" /\ heap_' = heap_
            ELSE hres'[t].kind = "ok"]_vars

\* A failed request has left the offset where it was and a later request
\* that fits has succeeded.
C10_Witness ==
    \E t, u \in Threads :
        /\ t # u
        /\ hres[t].kind = "OUT_OF_MEMORY"
        /\ hres[u].kind = "ok" /\ hres[u].size > 0
        /\ hres[u].off + hres[u].size < Word

\* The bytes [off, off + size) of two allocations have none in common.
Disjoint(a, b) == a.off + a.size <= b.off \/ b.off + b.size <= a.off

\* C11: of the allocations of non-zero size made with a power-of-two
\* alignment by threads sharing one atomic heap, any two have disjoint byte
\* ranges, and the one whose compare-and-swap committed earlier has the lower
\* offset.
C11_CommittedDisjointInOrder ==
    \A i, j \in 1..Len(hcommitted) :
        (/\ i < j
         /\ hcommitted[i].size > 0 /\ hcommitted[j].size > 0
         /\ IsPowerOfTwo(hcommitted[i].align) /\ IsPowerOfTwo(hcommitted[j].align))
        => /\ Disjoint(hcommitted[i], hcommitted[j])
           /\ hcommitted[i].off < hcommitted[j].off

\* Two threads were inside Allocate together and both committed.
C11_Witness ==
    /\ Len(hcommitted) = 2
    /\ hcommitted[1].size > 0 /\ hcommitted[2].size > 0
    /\ hcommitted[2].from = hcommitted[1].off + hcommitted[1].size
    /\ hcommitted[2].off > hcommitted[2].from
    /\ \A t \in Threads : hres[t].kind = "ok"

\* C12: Allocate called with align = 0 does what it does with align = 8: it
\* does not fail because of the alignment, and the offset it returns is the
\* heap offset rounded up to a multiple of 8.
C12_AlignZeroIsEight ==
    /\ \A t \in Threads : hres[t].kind # "trap"
    /\ \A i \in 1..Len(hcommitted) :
         hcommitted[i].align = 0 =>
            hcommitted[i].off \in AlignSize(hcommitted[i].from, 8)

\* -------------------------------------------------------- BuddyAllocator

\* sizeof(BuddyPage): the header (next, size) at the start of every block.
kBuddyPageHdr == 16

\* The smallest total size a listed block has.
kMinSize == 32

\* The largest total size the small path serves, the size of the arena that
\* repopulation carves, and the number of small and of large free lists.
kMaxSmallSize == 16 * 1024
kSmallThreshold == kMaxSmallSize - kBuddyPageHdr
kSmallArenaSize == 64 * 1024
kMaxSmallPages == 10
kMaxLargePages == 7

RECURSIVE FloorLog2(_)
FloorLog2(n) == IF n <= 1 THEN 0 ELSE 1 + FloorLog2(n \div 2)

RoundUpPow2(n) == IF 2 ^ FloorLog2(n) = n THEN n ELSE 2 ^ (FloorLog2(n) + 1)

Clamp(x, lo, hi) == IF x < lo THEN lo ELSE IF x > hi THEN hi ELSE x

\* Every small block is filed on the first list.
SmallListIndexFirst(size) == 0

\* Small lists: idx = floor_log2(size) - 5, idx in 0..9.
SmallListIndex(size) == Clamp(FloorLog2(size) - 5, 0, kMaxSmallPages - 1)

\* Large lists: idx = floor_log2(size) - 14 - 1, clamped to 0..6.
LargeListIndex(size) == Clamp(FloorLog2(size) - 14 - 1, 0, kMaxLargePages - 1)

\* The width of size_t as the allocator's sizes are kept, scaled from 64 so
\* that sums of block sizes stay representable: sizes are taken modulo
\* BuddyWord.
BuddySizeBits == 28

BuddyWord == 2 ^ BuddySizeBits

\* Heap::Allocate run by one thread on the heap h with a non-zero alignment:
\* the new heap and the offset returned, or the heap as it was when the end
\* would exceed max_size_ (OUT_OF_MEMORY). The end is a size_t sum and wraps.
HeapAllocate(h, size, align) ==
    LET aligned_off == (((h.heap_ + align - 1) \div align) * align) % BuddyWord
        end_off == (aligned_off + size) % BuddyWord
    IN  IF EndExceedsMax(end_off, h.max_size_)
        THEN [ok |-> FALSE, heap |-> h, off |-> 0]
        ELSE [ok |-> TRUE, heap |-> [h EXCEPT !.heap_ = end_off],
              off |-> aligned_off]

\* The allocator's memory as the operations pass it along is a record st with
\* st.heap, st.small, st.large and st.discarded.

\* The block goes to the tail of list idx.
PushAtTail(lists, idx, blk) == [lists EXCEPT ![idx] = @ \o <<blk>>]

\* The block goes to the head of list idx.
Push(lists, idx, blk) == [lists EXCEPT ![idx] = <<blk>> \o @]

RemoveAt(seq, j) == SubSeq(seq, 1, j - 1) \o SubSeq(seq, j + 1, Len(seq))

\* A remainder is listed whatever its size.
RemainderTooSmallNever(total) == FALSE

\* A remainder too small to hold a header and data is dropped.
RemainderTooSmall(total) == total < kMinSize

\* AddRemainderToFreeList: the bytes [off, off + total) go onto the free list
\* of their size, or are dropped when too small.
AddRemainderToFreeList(st, off, total) ==
    IF total = 0 THEN st
    ELSE IF RemainderTooSmall(total)
    THEN [st EXCEPT !.discarded = @ + total]
    ELSE IF total <= kMaxSmallSize
    THEN [st EXCEPT !.small = Push(@, SmallListIndex(total),
                                   [off |-> off, size |-> total])]
    ELSE [st EXCEPT !.large = Push(@, LargeListIndex(total),
                                   [off |-> off, size |-> total])]

Min(S) == CHOOSE x \in S : \A y \in S : x <= y

\* The scan of the exact list only.
SmallScanExact(small, idx) == {i \in {idx} : small[i] # <<>>}

\* The upward scan of the small path before repopulation: the non-empty
\* lists from the request's own list upward.
SmallScan(small, idx) ==
    {i \in idx..(kMaxSmallPages - 1) : small[i] # <<>>}

\* The upward scan of the retry made after repopulation.
SmallRetryScan(small, idx) ==
    {i \in idx..(kMaxSmallPages - 1) : small[i] # <<>>}

\* The head of small list i is taken; what it has beyond total goes back to
\* a free list.
TakeSmall(st, i, total, how) ==
    LET blk == Head(st.small[i])
        st1 == [st EXCEPT !.small[i] = Tail(@)]
    IN  [ok |-> TRUE, how |-> how, at |-> i,
         blk |-> [off |-> blk.off, size |-> total],
         st |-> AddRemainderToFreeList(st1, blk.off + total, blk.size - total)]

\* The positions <<list, position>> of the blocks on the large lists.
LargePositions(large) ==
    UNION {{<<i, j>> : j \in 1..Len(large[i])} : i \in DOMAIN large}

\* The large free pages an arena can be carved from.
ArenaPages(large) ==
    {p \in LargePositions(large) : large[p[1]][p[2]].size >= kSmallArenaSize}

\* The first of a set of <<list, position>> pairs, lists in ascending order.
FirstPage(pages) ==
    CHOOSE p \in pages : \A q \in pages :
        p[1] < q[1] \/ (p[1] = q[1] /\ p[2] <= q[2])

\* The rest of the page is forgotten.
ArenaRemainderLeaked(st, off, total) == st

\* What is left of the page after the arena goes back to a free list.
ArenaRemainder(st, off, total) == AddRemainderToFreeList(st, off, total)

RECURSIVE PushChunks(_, _, _)
\* The arena cut into n pages of the largest small size; the page at the
\* lowest offset ends at the head of the list.
PushChunks(small, off, n) ==
    IF n = 0 THEN small
    ELSE Push(PushChunks(small, off + kMaxSmallSize, n - 1), kMaxSmallPages - 1,
              [off |-> off, size |-> kMaxSmallSize])

\* RepopulateSmallArena: an arena is carved from the first large free page
\* that holds one and cut into small pages; the rest of the page is listed.
RepopulateSmallArena(st) ==
    IF ArenaPages(st.large) = {} THEN [ok |-> FALSE, st |-> st]
    ELSE LET p == FirstPage(ArenaPages(st.large))
             page == st.large[p[1]][p[2]]
             st1 == [st EXCEPT !.large[p[1]] = RemoveAt(@, p[2])]
             st2 == [st1 EXCEPT !.small =
                        PushChunks(@, page.off, kSmallArenaSize \div kMaxSmallSize)]
         IN  [ok |-> TRUE, page |-> page,
              st |-> ArenaRemainder(st2, page.off + kSmallArenaSize,
                                    page.size - kSmallArenaSize)]

\* A block of total bytes from the bump heap, or null with the heap as it was.
TakeHeap(st, total, align) ==
    LET r == HeapAllocate(st.heap, total, align)
    IN  IF r.ok
        THEN [ok |-> TRUE, how |-> "heap", at |-> -1,
              blk |-> [off |-> r.off, size |-> total],
              st |-> [st EXCEPT !.heap = r.heap,
                                !.discarded = @ + (r.off - st.heap.heap_)]]
        ELSE [ok |-> FALSE, how |-> "null", at |-> -1,
              blk |-> [off |-> 0, size |-> 0], st |-> st]

\* allocate_small(data_size)
AllocateSmall(st, data_size) ==
    LET total == RoundUpPow2(data_size + kBuddyPageHdr)
        idx == FloorLog2(total) - 5
        pre == SmallScan(st.small, idx)
        rp == RepopulateSmallArena(st)
        post == SmallRetryScan(rp.st.small, idx)
    IN  IF pre # {} THEN TakeSmall(st, Min(pre), total, "list")
        ELSE IF rp.ok /\ post # {}
        THEN TakeSmall(rp.st, Min(post), total, "repopulated")
        ELSE TakeHeap(rp.st, total, 8)

\* The large scan of the exact list only.
LargeFitExact(large, idx, total) ==
    {p \in LargePositions(large) : p[1] = idx /\ large[p[1]][p[2]].size >= total}

\* The large free blocks that serve a request of total bytes: lists from the
\* request's own upward, blocks at least as large as the request.
LargeFit(large, idx, total) ==
    {p \in LargePositions(large) : p[1] >= idx /\ large[p[1]][p[2]].size >= total}

\* The block at position p leaves its list; what it has beyond total goes back
\* to a free list.
TakeLarge(st, p, total, how) ==
    LET blk == st.large[p[1]][p[2]]
        st1 == [st EXCEPT !.large[p[1]] = RemoveAt(@, p[2])]
    IN  [ok |-> TRUE, how |-> how, at |-> p[1],
         blk |-> [off |-> blk.off, size |-> total],
         st |-> AddRemainderToFreeList(st1, blk.off + total, blk.size - total)]

Range(seq) == {seq[k] : k \in DOMAIN seq}

\* Every block on a free list.
FreeBlocks(small, large) ==
    UNION ({Range(small[i]) : i \in DOMAIN small}
           \cup {Range(large[i]) : i \in DOMAIN large})

\* Two free blocks are buddies: equal sizes, adjacent, and the lower one
\* starts at a multiple of the merged size.
Buddies(a, b) ==
    /\ a.size = b.size
    /\ a.off + a.size = b.off
    /\ a.off % (2 * a.size) = 0

BuddyPairs(blocks) == {pr \in blocks \X blocks : Buddies(pr[1], pr[2])}

WithoutBlock(lists, blk) ==
    [i \in DOMAIN lists |-> SelectSeq(lists[i], LAMBDA x : x.off # blk.off)]

RECURSIVE Coalesce(_)
\* Coalescence: buddies are merged, lowest offset first, until none is left;
\* a merged block goes to the list of its size.
Coalesce(st) ==
    LET pairs == BuddyPairs(FreeBlocks(st.small, st.large))
    IN  IF pairs = {} THEN st
        ELSE LET pr == CHOOSE x \in pairs : \A y \in pairs : x[1].off <= y[1].off
                 st1 == [st EXCEPT
                            !.small = WithoutBlock(WithoutBlock(@, pr[1]), pr[2]),
                            !.large = WithoutBlock(WithoutBlock(@, pr[1]), pr[2])]
             IN  Coalesce(AddRemainderToFreeList(st1, pr[1].off, 2 * pr[1].size))

\* allocate_large(data_size)
AllocateLarge(st, data_size) ==
    LET total == (data_size + kBuddyPageHdr) % BuddyWord
        idx == LargeListIndex(total)
        fit == LargeFit(st.large, idx, total)
        co == Coalesce(st)
        refit == LargeFit(co.large, idx, total)
    IN  IF fit # {} THEN TakeLarge(st, FirstPage(fit), total, "list")
        ELSE IF refit # {} THEN TakeLarge(co, FirstPage(refit), total, "coalesced")
        ELSE TakeHeap(co, total, 16)

\* Allocate(data_size): the small path up to kSmallThreshold, the large path
\* above it.
BuddyAllocate(st, data_size) ==
    IF data_size <= kSmallThreshold THEN AllocateSmall(st, data_size)
    ELSE AllocateLarge(st, data_size)

\* Free(block): the block goes to the head of the list of its stored size.
BuddyFree(st, blk) ==
    IF blk.size <= kMaxSmallSize
    THEN [st EXCEPT !.small = Push(@, SmallListIndex(blk.size), blk)]
    ELSE [st EXCEPT !.large = Push(@, LargeListIndex(blk.size), blk)]

\* The guard is missing: every region is set up.
RegionTooSmallNever(size) == FALSE

\* Expand's guard: the region cannot hold one block header.
RegionTooSmall(size) == size <= kBuddyPageHdr

EmptyHeap == [heap_ |-> 0, max_size_ |-> 0]

EmptyLists(n) == [i \in 0..(n - 1) |-> <<>>]

\* Expand(region_size) as shm_init calls it: nothing for a region that is too
\* small; otherwise a block header is written at the start of the region and
\* the bump heap covers the region.
Expand(size) ==
    IF RegionTooSmall(size)
    THEN [heap |-> EmptyHeap, written |-> 0]
    ELSE [heap |-> [heap_ |-> 0, max_size_ |-> size], written |-> kBuddyPageHdr]

MaxBuddyCalls == 5

KiB == 1024

\* Data regions: one that cannot hold a header, and regions that one
\* allocation of a request size drains.
RegionSizes ==
    {8, 1 * KiB, 32 * KiB + 16, 128 * KiB + 64, KiB * KiB + 16}

\* Requested data sizes, of both paths, one no region can serve, and one
\* close to the largest size_t.
RequestSizes ==
    {32, 64, 512, 32 * KiB, 128 * KiB, 128 * KiB + 16, 128 * KiB + 48,
     KiB * KiB, 64 * KiB * KiB, BuddyWord - 64}

BuddyState ==
    [heap |-> big_heap, small |-> small_pages, large |-> large_pages,
     discarded |-> discarded]

\* The call made before the one being recorded.
Prev == [op |-> last_call.op, off |-> last_call.off,
         blk_size |-> last_call.blk_size]

\* alloc->Allocate(data_size)
BuddyAllocateCall(data_size) ==
    /\ bcalls < MaxBuddyCalls
    /\ LET r == BuddyAllocate(BuddyState, data_size)
       IN  /\ big_heap' = r.st.heap
           /\ small_pages' = r.st.small
           /\ large_pages' = r.st.large
           /\ discarded' = r.st.discarded
           /\ live' = IF r.ok THEN live \cup {r.blk} ELSE live
           /\ last_call' = [op |-> "alloc", size |-> data_size, ok |-> r.ok,
                            how |-> r.how, at |-> r.at, off |-> r.blk.off,
                            blk_size |-> r.blk.size, prev |-> Prev]
    /\ bcalls' = bcalls + 1
    /\ UNCHANGED <<region_size, out_of_region>>

\* alloc->Free(blk) of a live block
BuddyFreeCall(blk) ==
    /\ bcalls < MaxBuddyCalls
    /\ blk \in live
    /\ LET st == BuddyFree(BuddyState, blk)
       IN  /\ small_pages' = st.small
           /\ large_pages' = st.large
    /\ live' = live \ {blk}
    /\ last_call' = [op |-> "free", size |-> 0, ok |-> TRUE, how |-> "free",
                     at |-> -1, off |-> blk.off, blk_size |-> blk.size,
                     prev |-> Prev]
    /\ bcalls' = bcalls + 1
    /\ UNCHANGED <<region_size, big_heap, discarded, out_of_region>>

\* The allocator after shm_init over a data region of one of the sizes.
BuddyInit ==
    /\ region_size \in RegionSizes
    /\ big_heap = Expand(region_size).heap
    /\ out_of_region = (Expand(region_size).written > region_size)
    /\ small_pages = EmptyLists(kMaxSmallPages)
    /\ large_pages = EmptyLists(kMaxLargePages)
    /\ live = {}
    /\ last_call = [op |-> "init", size |-> 0, ok |-> TRUE, how |-> "init",
                    at |-> -1, off |-> 0, blk_size |-> 0,
                    prev |-> [op |-> "none", off |-> 0, blk_size |-> 0]]
    /\ bcalls = 0
    /\ discarded = 0

InitBuddy == WalIdle /\ HeapIdle /\ BuddyInit /\ RestIdle

NextBuddy ==
    \/ (\E data_size \in RequestSizes : BuddyAllocateCall(data_size)
            /\ UNCHANGED notBuddy)
    \/ (\E blk \in live : BuddyFreeCall(blk)
            /\ UNCHANGED notBuddy)

SpecBuddy == InitBuddy /\ [][NextBuddy]_vars

RECURSIVE SumSizes(_)
SumSizes(blocks) ==
    IF blocks = {} THEN 0
    ELSE LET b == CHOOSE x \in blocks : TRUE
         IN  b.size + SumSizes(blocks \ {b})

\* The bytes on the free lists.
FreeBytes == SumSizes(FreeBlocks(small_pages, large_pages))

BlocksOverlap(a, b) == a.off < b.off + b.size /\ b.off < a.off + a.size

\* C13: in every state reached by allocate and free calls on one region,
\* every live allocation lies inside the region (its start plus its size is
\* at most the region's end) and no two live allocations overlap.
C13_LiveInsideAndDisjoint ==
    /\ \A b \in live : 0 <= b.off /\ b.off + b.size <= region_size
    /\ \A a \in live : \A b \in live : a # b => ~BlocksOverlap(a, b)

\* Three allocations are live at once, the last one served from a free list
\* by splitting a freed block.
C13_Witness ==
    /\ Cardinality(live) >= 3
    /\ last_call.op = "alloc" /\ last_call.ok /\ last_call.how = "list"
    /\ FreeBytes > 0

\* The step is one Allocate call.
AllocateStep == bcalls' = bcalls + 1 /\ last_call'.op = "alloc"

\* The bump heap cannot serve a block of total bytes.
HeapExhaustedFor(total) == big_heap.max_size_ - big_heap.heap_ < total

\* A free block of total size S that a request of data_size bytes can be
\* served from: on the large path any block; on the small path a small block
\* no smaller than the rounded request, or a large block an arena fits in.
Reachable(S, data_size) ==
    \/ data_size > kSmallThreshold
    \/ S <= kMaxSmallSize /\ RoundUpPow2(data_size + kBuddyPageHdr) <= S
    \/ S >= kSmallArenaSize

C15_UnsatisfiableReturnsNull ==
    [][AllocateStep =>
        /\ (last_call'.size + kBuddyPageHdr > region_size => ~last_call'.ok)
        /\ (~last_call'.ok => big_heap' = big_heap /\ live' = live)]_vars

\* 64 MiB was requested from a region that holds a live block and had room
\* left in its heap, and the call returned null.
C15_Witness ==
    /\ last_call.op = "alloc" /\ ~last_call.ok
    /\ last_call.size = 64 * KiB * KiB
    /\ live # {}
    /\ big_heap.heap_ < big_heap.max_size_

\* C16: no free list ever holds a block whose total size is 16 bytes or
\* less: a split that would leave such a remainder drops it instead of
\* listing it.
C16_NoHeaderOnlyFreeBlock ==
    \A b \in FreeBlocks(small_pages, large_pages) : b.size > kBuddyPageHdr

\* A split dropped a 16-byte remainder, and a later allocation was served
\* from the bump heap.
C16_Witness ==
    /\ discarded = kBuddyPageHdr
    /\ last_call.op = "alloc" /\ last_call.ok /\ last_call.how = "heap"
    /\ Cardinality(live) >= 2

NonEmptyFrom(idx) ==
    {i \in 0..(kMaxSmallPages - 1) : i >= idx /\ small_pages[i] # <<>>}

\* C19: a small-path request is served from the first non-empty small list
\* at or above its own list when there is one, and when there is none but a
\* large free page holds an arena, it is served from the lists repopulation
\* filled, which lie above its own list.
C19_SmallPathScansUpward ==
    [][(AllocateStep /\ last_call'.size <= kSmallThreshold) =>
        LET idx == FloorLog2(RoundUpPow2(last_call'.size + kBuddyPageHdr)) - 5
        IN  /\ NonEmptyFrom(idx) # {} =>
                /\ last_call'.ok /\ last_call'.how = "list"
                /\ last_call'.at = Min(NonEmptyFrom(idx))
            /\ (NonEmptyFrom(idx) = {} /\ ArenaPages(large_pages) # {}) =>
                /\ last_call'.ok /\ last_call'.how = "repopulated"
                /\ last_call'.at >= idx]_vars

\* With the heap drained and one 1024-byte block (a freed 512-byte
\* allocation) on the lists, a 64-byte request was served from that block's
\* list, above its own.
C19_Witness ==
    /\ last_call.op = "alloc" /\ last_call.ok /\ last_call.size = 64
    /\ last_call.how = "list"
    /\ last_call.at = SmallListIndex(1 * KiB)
    /\ HeapExhaustedFor(last_call.blk_size)
    /\ large_pages = EmptyLists(kMaxLargePages)

\* The step is Allocate(size) right after Free(p), with size at most p's
\* block size less the header.
ReallocStep ==
    /\ AllocateStep
    /\ last_call.op = "free"
    /\ last_call'.size <= last_call.blk_size - kBuddyPageHdr

\* C20 as stated: after free(p) immediately followed by allocate(size) with
\* size <= block_size_of(p) - 16, in any allocator state, the returned
\* offset is p's.
C20_FreedBlockReused ==
    [][ReallocStep =>
        last_call'.ok /\ last_call'.off = last_call.off]_vars

\* No free block stands before p in the scan the request makes: the request
\* takes the path of p's block, and no list from the request's own up to,
\* not including, p's holds a block that can serve the request.
NothingBefore(p_size, data_size) ==
    LET total == data_size + kBuddyPageHdr
    IN  IF p_size <= kMaxSmallSize
        THEN \A i \in 0..(kMaxSmallPages - 1) :
                (/\ i >= FloorLog2(RoundUpPow2(total)) - 5
                 /\ i < SmallListIndex(p_size)) => small_pages[i] = <<>>
        ELSE /\ data_size > kSmallThreshold
             /\ \A q \in LargePositions(large_pages) :
                    (/\ q[1] >= LargeListIndex(total)
                     /\ q[1] < LargeListIndex(p_size))
                    => large_pages[q[1]][q[2]].size < total

\* C20, amended: after free(p) immediately followed by allocate(size) with
\* size <= block_size_of(p) - 16, the returned offset is p's, provided the
\* request takes the same path as p's block and no free list below p's, from
\* the request's own list upward, holds a block that can serve the request.
C20_FreedBlockReusedIfFirst ==
    [][(ReallocStep /\ NothingBefore(last_call.blk_size, last_call'.size)) =>
        last_call'.ok /\ last_call'.off = last_call.off]_vars

\* A block was freed and the next call, for a smaller size, got the block's
\* offset back from a free list, split.
C20_Witness ==
    /\ last_call.op = "alloc" /\ last_call.ok /\ last_call.how = "list"
    /\ last_call.prev.op = "free"
    /\ last_call.off = last_call.prev.off
    /\ last_call.blk_size < last_call.prev.blk_size

\* The total sizes the small list idx is for: from 2^(idx+5) up to, not
\* including, 2^(idx+6); the first list also takes what is smaller and the
\* last one what is larger, up to the largest small page.
OnItsSmallList(idx, size) ==
    /\ size <= kMaxSmallSize
    /\ idx > 0 => size >= 2 ^ (idx + 5)
    /\ idx < kMaxSmallPages - 1 => size < 2 ^ (idx + 6)

\* The total sizes the large list idx is for: from 2^(idx+15) up to, not
\* including, 2^(idx+16), the first and the last list open-ended.
OnItsLargeList(idx, size) ==
    /\ size > kMaxSmallSize
    /\ idx > 0 => size >= 2 ^ (idx + 15)
    /\ idx < kMaxLargePages - 1 => size < 2 ^ (idx + 16)

NProducers == 2

ItemsPerProducer == 2

RingDepth == 2

Producers == 1..NProducers

NoItem == <<0, 0>>

\* The k-th item of producer p.
Item(p, k) == <<p, k>>

Slot(counter) == counter % RingDepth

\* The tail is left as it was: two producers may claim one cell.
ClaimTailStuck(tail) == tail

\* tail_.fetch_add(1): the value the tail takes.
ClaimTail(tail) == tail + 1

\* A producer never waits.
HasSpaceAlways(tick, head) == TRUE

\* The cell claimed with tail value tick is free: the value it held a lap
\* before has been consumed.
HasSpace(tick, head) == tick - head < RingDepth

\* Every cell counts as published.
PublishedAlways(cell, head) == TRUE

\* The cell holds what was published for head value head: its sequence
\* number was bumped by the Emplace that claimed that value.
Published(cell, head) == cell.seq = head + 1

\* Emplace, first step: the producer claims a cell.
EmplaceClaim(p) ==
    /\ ppc[p] = "idle"
    /\ psent[p] < ItemsPerProducer
    /\ ptick' = [ptick EXCEPT ![p] = m_tail]
    /\ m_tail' = ClaimTail(m_tail)
    /\ ppc' = [ppc EXCEPT ![p] = "wait"]
    /\ pwaited' = [pwaited EXCEPT ![p] = FALSE]
    /\ UNCHANGED <<m_head, cells, psent, cpc, c_head, c_val, popped, pop_last,
                   emplaced>>

\* Emplace finds its cell not free and spins.
EmplaceSpin(p) ==
    /\ ppc[p] = "wait"
    /\ ~HasSpace(ptick[p], m_head)
    /\ pwaited' = [pwaited EXCEPT ![p] = TRUE]
    /\ UNCHANGED <<m_head, m_tail, cells, ppc, ptick, psent, cpc, c_head, c_val,
                   popped, pop_last, emplaced>>

\* Emplace finds its cell free and goes on.
EmplaceWait(p) ==
    /\ ppc[p] = "wait"
    /\ HasSpace(ptick[p], m_head)
    /\ ppc' = [ppc EXCEPT ![p] = "write"]
    /\ UNCHANGED <<m_head, m_tail, cells, ptick, psent, cpc, c_head, c_val,
                   popped, pop_last, emplaced,
                   pwaited>>

\* Emplace writes the value into its cell.
EmplaceWrite(p) ==
    /\ ppc[p] = "write"
    /\ cells' = [cells EXCEPT ![Slot(ptick[p])].val = Item(p, psent[p] + 1)]
    /\ emplaced' = [emplaced EXCEPT ![ptick[p]] = Item(p, psent[p] + 1)]
    /\ ppc' = [ppc EXCEPT ![p] = "publish"]
    /\ UNCHANGED <<m_head, m_tail, ptick, psent, cpc, c_head, c_val, popped,
                   pop_last,
                   pwaited>>

\* Emplace bumps the cell's sequence number and returns.
EmplacePublish(p) ==
    /\ ppc[p] = "publish"
    /\ cells' = [cells EXCEPT ![Slot(ptick[p])].seq = ptick[p] + 1]
    /\ psent' = [psent EXCEPT ![p] = @ + 1]
    /\ ppc' = [ppc EXCEPT ![p] = "idle"]
    /\ UNCHANGED <<m_head, m_tail, ptick, cpc, c_head, c_val, popped, pop_last,
                   emplaced,
                   pwaited>>

\* Pop, first step, on a cell that is published: the consumer goes on to
\* read it.
PopCheck ==
    /\ cpc = "idle"
    /\ Published(cells[Slot(m_head)], m_head)
    /\ c_head' = m_head
    /\ cpc' = "read"
    /\ UNCHANGED <<m_head, m_tail, cells, ppc, ptick, psent, c_val, popped,
                   pop_last, emplaced,
                   pwaited>>

\* Pop on a cell that is not published returns false.
PopEmpty ==
    /\ cpc = "idle"
    /\ ~Published(cells[Slot(m_head)], m_head)
    /\ pop_last' = "false"
    /\ UNCHANGED <<m_head, m_tail, cells, ppc, ptick, psent, cpc, c_head, c_val,
                   popped, emplaced,
                   pwaited>>

\* Pop reads the cell's value.
PopRead ==
    /\ cpc = "read"
    /\ c_val' = cells[Slot(c_head)].val
    /\ cpc' = "advance"
    /\ UNCHANGED <<m_head, m_tail, cells, ppc, ptick, psent, c_head, popped,
                   pop_last, emplaced,
                   pwaited>>

\* Pop moves the head on and returns true with the value.
PopAdvance ==
    /\ cpc = "advance"
    /\ m_head' = c_head + 1
    /\ popped' = Append(popped, c_val)
    /\ pop_last' = "true"
    /\ cpc' = "idle"
    /\ UNCHANGED <<m_tail, cells, ppc, ptick, psent, c_head, c_val, emplaced,
                   pwaited>>

\* A fresh ring buffer, its producers and its consumer.
MpscInit ==
    /\ m_head = 0
    /\ m_tail = 0
    /\ cells = [i \in 0..(RingDepth - 1) |-> [seq |-> 0, val |-> NoItem]]
    /\ ppc = [p \in Producers |-> "idle"]
    /\ ptick = [p \in Producers |-> 0]
    /\ psent = [p \in Producers |-> 0]
    /\ pwaited = [p \in Producers |-> FALSE]
    /\ cpc = "idle"
    /\ c_head = 0
    /\ c_val = NoItem
    /\ popped = <<>>
    /\ pop_last = "none"
    /\ emplaced = [k \in 0..(NProducers * ItemsPerProducer - 1) |-> NoItem]

InitMpsc == WalIdle /\ HeapIdle /\ BuddyIdle /\ MpscInit /\ LaterIdle

ProducerStep(p) ==
    \/ EmplaceClaim(p)
    \/ EmplaceSpin(p)
    \/ EmplaceWait(p)
    \/ EmplaceWrite(p)
    \/ EmplacePublish(p)

ConsumerStep ==
    \/ PopCheck
    \/ PopEmpty
    \/ PopRead
    \/ PopAdvance

NextMpsc ==
    \/ (\E p \in Producers : EmplaceClaim(p) /\ UNCHANGED notMpsc)
    \/ (\E p \in Producers : EmplaceSpin(p) /\ UNCHANGED notMpsc)
    \/ (\E p \in Producers : EmplaceWait(p) /\ UNCHANGED notMpsc)
    \/ (\E p \in Producers : EmplaceWrite(p) /\ UNCHANGED notMpsc)
    \/ (\E p \in Producers : EmplacePublish(p) /\ UNCHANGED notMpsc)
    \/ (PopCheck /\ UNCHANGED notMpsc)
    \/ (PopEmpty /\ UNCHANGED notMpsc)
    \/ (PopRead /\ UNCHANGED notMpsc)
    \/ (PopAdvance /\ UNCHANGED notMpsc)

SpecMpsc == InitMpsc /\ [][NextMpsc]_vars

\* The producers and the consumer keep running: every producer that can take
\* a step takes one, and the consumer keeps popping.
SpecMpscLive ==
    /\ InitMpsc
    /\ [][NextMpsc]_vars
    /\ \A p \in Producers : WF_vars(ProducerStep(p) /\ UNCHANGED notMpsc)
    /\ WF_vars((PopCheck \/ PopRead \/ PopAdvance) /\ UNCHANGED notMpsc)

AllItems == {Item(p, k) : p \in Producers, k \in 1..ItemsPerProducer}

\* Every producer has finished and the consumer has drained the buffer.
AllDone ==
    /\ \A p \in Producers : psent[p] = ItemsPerProducer /\ ppc[p] = "idle"
    /\ m_head = m_tail
    /\ cpc = "idle"

\* C22: the values popped carry no duplicate, each was emplaced, the items
\* of one producer are popped in the order it emplaced them, and once the
\* producers are done and the buffer is drained, every emplaced item has
\* been popped.
C22_ExactlyOncePerProducerFifo ==
    /\ \A i \in 1..Len(popped) : popped[i] \in AllItems
    /\ \A i \in 1..Len(popped) : \A j \in 1..Len(popped) :
          i < j => /\ popped[i] # popped[j]
                   /\ (popped[i][1] = popped[j][1] => popped[i][2] < popped[j][2])
    /\ \A i \in 1..Len(popped) :
          psent[popped[i][1]] >= popped[i][2]
    /\ AllDone => Range(popped) = AllItems

\* Everything was popped, the producers' items interleaved: the second
\* value popped came from another producer than the first.
C22_Witness ==
    /\ AllDone
    /\ Len(popped) = NProducers * ItemsPerProducer
    /\ popped[1][1] # popped[2][1]

\* The step is the consumer reading a cell.
PopReadStep == cpc = "read" /\ cpc' = "advance"

\* C23: the consumer reads a cell only after the Emplace that claimed it has
\* written the value and bumped the cell's sequence number, so the value
\* read is the one emplaced for that head value and no producer is writing
\* or about to publish that cell; and a Pop that returns
\* false leaves head_, the cells and the values popped as they were.
C23_ReadsOnlyPublished ==
    [][/\ PopReadStep =>
            /\ cells[Slot(c_head)].seq = c_head + 1
            /\ c_val' = emplaced[c_head]
            /\ c_val' # NoItem
            /\ \A p \in Producers :
                  (ppc[p] \in {"write", "publish"})
                  => Slot(ptick[p]) # Slot(c_head)
       /\ (pop_last' = "false" /\ pop_last # "false") =>
            /\ m_head' = m_head
            /\ cells' = cells
            /\ popped' = popped]_vars

\* Pop returned false while a producer had claimed the cell at head_ and
\* written its value, the sequence number not yet bumped.
C23_Witness ==
    /\ pop_last = "false"
    /\ cpc = "idle"
    /\ \E p \in Producers : ppc[p] = "publish" /\ ptick[p] = m_head
    /\ Len(popped) >= 1

\* The step is a producer writing its value into its cell.
EmplaceWriteStep(p) == ppc[p] = "write" /\ ppc'[p] = "publish"

\* What the cell holds has been consumed: nothing was written to it yet, or
\* the value was popped, or the consumer has read it and is about to return
\* it.
Consumed(cell) ==
    \/ cell.val = NoItem
    \/ cell.val \in Range(popped)
    \/ cpc = "advance" /\ c_val = cell.val

\* C24: an Emplace on a full buffer does not overwrite a cell whose value
\* has not been consumed, and, the consumer and the producers kept running,
\* an Emplace that waits on a full buffer completes.
C24_FullEmplaceWaitsAndCompletes ==
    /\ [][\A p \in Producers :
            EmplaceWriteStep(p) => Consumed(cells[Slot(ptick[p])])]_vars
    /\ \A p \in Producers :
          (ppc[p] = "wait" /\ ptick[p] - m_head >= RingDepth)
              ~> (ppc[p] = "idle")

\* A producer found the buffer full, waited, and its Emplace has returned,
\* its value published in a cell used for the second time.
C24_Witness ==
    \E p \in Producers :
        /\ pwaited[p]
        /\ ppc[p] = "idle"
        /\ ptick[p] >= RingDepth
        /\ cells[Slot(ptick[p])].seq = ptick[p] + 1

\* ------------------------------------------------ MultiProcessAllocator
\*
\* The sharded allocator of spec 4.6: a root bump heap in the backend, a
\* ProcessBlock per attached process taken from the root heap, a ThreadBlock
\* per bound thread taken from its process's block.  A ThreadBlock is its
\* metadata followed by its thread unit, the region the thread's allocations
\* are served from.  A ThreadBlock that runs out takes more from its
\* ProcessBlock, a ProcessBlock that runs out takes more from the root heap.
\* Sizes are in units of the model; the shapes are those of test_mp_debug.cc.

\* The processes and the threads of a process, and the calls of one run.
NProcesses == 2
NShardThreads == 2
MaxShardCalls == 5

Processes == 1..NProcesses

ShardThreads == 1..NShardThreads

\* heap_size, process_unit_, thread_unit_ and sizeof(ThreadBlock).
RootSize == 30
ProcessUnit == 12
ThreadUnit == 4
kThreadBlockHdr == 2

ShardSizes == {1, 3, 6}

MaxOf(a, b) == IF a >= b THEN a ELSE b

NoProcessBlock == [attached |-> FALSE, regions |-> <<>>, next |-> 0]

NoThreadBlock == [bound |-> FALSE, meta |-> 0, regions |-> <<>>, next |-> 0]

\* The bump inside the newest region of a block.
FitsInLast(blk, size) ==
    blk.next + size <= blk.regions[Len(blk.regions)][2]

\* A ProcessBlock hands out size units: from its newest region, or, when
\* that is used up, from a region it first takes from the root heap.
ProcessTake(pb, root, size) ==
    IF FitsInLast(pb, size)
    THEN [ok |-> TRUE, off |-> pb.next, root |-> root,
          pb |-> [pb EXCEPT !.next = @ + size]]
    ELSE LET grow == MaxOf(ProcessUnit, size)
             r == HeapAllocate(root, grow, 1)
         IN  IF ~r.ok
             THEN [ok |-> FALSE, off |-> 0, root |-> root, pb |-> pb]
             ELSE [ok |-> TRUE, off |-> r.off, root |-> r.heap,
                   pb |-> [pb EXCEPT
                       !.regions = Append(@, <<r.off, r.off + grow>>),
                       !.next = r.off + size]]

\* A thread's region with the metadata left inside it.
ThreadDataStartAtBlock(off) == off

\* Where the region a ThreadBlock serves allocations from starts: after the
\* metadata.
ThreadDataStart(off) == off + kThreadBlockHdr

\* shm_attach: the process gets its ProcessBlock from the root heap.
ShardAttach(p) ==
    /\ sh_calls < MaxShardCalls
    /\ ~sh_pblk[p].attached
    /\ LET r == HeapAllocate(sh_root, ProcessUnit, 1)
       IN  IF r.ok
           THEN /\ sh_root' = r.heap
                /\ sh_pblk' = [sh_pblk EXCEPT ![p] =
                       [attached |-> TRUE,
                        regions |-> << <<r.off, r.off + ProcessUnit>> >>,
                        next |-> r.off]]
           ELSE UNCHANGED <<sh_root, sh_pblk>>
    /\ sh_calls' = sh_calls + 1
    /\ UNCHANGED <<sh_tblk, sh_allocs>>

\* A thread binds an allocation context: its ThreadBlock, metadata and thread
\* unit, is taken from its process's block.
ShardBindThread(p, t) ==
    /\ sh_calls < MaxShardCalls
    /\ sh_pblk[p].attached
    /\ ~sh_tblk[<<p, t>>].bound
    /\ LET r == ProcessTake(sh_pblk[p], sh_root, kThreadBlockHdr + ThreadUnit)
       IN  /\ sh_root' = r.root
           /\ sh_pblk' = [sh_pblk EXCEPT ![p] = r.pb]
           /\ sh_tblk' =
                IF r.ok
                THEN [sh_tblk EXCEPT ![<<p, t>>] =
                       [bound |-> TRUE,
                        meta |-> r.off,
                        regions |-> << <<ThreadDataStart(r.off),
                                         r.off + kThreadBlockHdr + ThreadUnit>> >>,
                        next |-> ThreadDataStart(r.off)]]
                ELSE sh_tblk
    /\ sh_calls' = sh_calls + 1
    /\ UNCHANGED sh_allocs

\* Allocate by a bound thread: from the newest region of its ThreadBlock, or,
\* when that is used up, from a region the ThreadBlock first takes from the
\* ProcessBlock (which may in turn expand from the root heap).  Null when the
\* root heap cannot serve the expansion.
ShardAllocate(p, t, size) ==
    /\ sh_calls < MaxShardCalls
    /\ sh_tblk[<<p, t>>].bound
    /\ LET tb == sh_tblk[<<p, t>>]
       IN  IF FitsInLast(tb, size)
           THEN /\ sh_tblk' = [sh_tblk EXCEPT ![<<p, t>>].next = @ + size]
                /\ sh_allocs' = sh_allocs \cup
                       {[proc |-> p, thread |-> t, off |-> tb.next,
                         size |-> size]}
                /\ UNCHANGED <<sh_root, sh_pblk>>
           ELSE LET grow == MaxOf(ThreadUnit, size)
                    r == ProcessTake(sh_pblk[p], sh_root, grow)
                IN  /\ sh_root' = r.root
                    /\ sh_pblk' = [sh_pblk EXCEPT ![p] = r.pb]
                    /\ IF r.ok
                       THEN /\ sh_tblk' = [sh_tblk EXCEPT ![<<p, t>>] =
                                  [@ EXCEPT
                                     !.regions =
                                        Append(@, <<r.off, r.off + grow>>),
                                     !.next = r.off + size]]
                            /\ sh_allocs' = sh_allocs \cup
                                  {[proc |-> p, thread |-> t, off |-> r.off,
                                    size |-> size]}
                       ELSE UNCHANGED <<sh_tblk, sh_allocs>>
    /\ sh_calls' = sh_calls + 1

\* The allocator after shm_init: nothing attached, nothing bound.
ShardInit ==
    /\ sh_root = [heap_ |-> 0, max_size_ |-> RootSize]
    /\ sh_pblk = [p \in Processes |-> NoProcessBlock]
    /\ sh_tblk = [pt \in Processes \X ShardThreads |-> NoThreadBlock]
    /\ sh_allocs = {}
    /\ sh_calls = 0

InitShard ==
    /\ WalIdle /\ HeapIdle /\ BuddyIdle /\ MpscIdle
    /\ ShardInit /\ RingQueueIdle /\ ArenaIdle /\ LastIdle

NextShard ==
    \/ (\E p \in Processes : ShardAttach(p) /\ UNCHANGED notShard)
    \/ (\E p \in Processes, t \in ShardThreads :
            ShardBindThread(p, t) /\ UNCHANGED notShard)
    \/ (\E p \in Processes, t \in ShardThreads, size \in ShardSizes :
            ShardAllocate(p, t, size) /\ UNCHANGED notShard)

SpecShard == InitShard /\ [][NextShard]_vars

\* alloc_start < tblock_end && alloc_end > tblock_offset
RangesOverlap(a_lo, a_hi, b_lo, b_hi) == a_lo < b_hi /\ a_hi > b_lo

BoundThreads == {pt \in Processes \X ShardThreads : sh_tblk[pt].bound}

\* C25 as stated: no allocation returned overlaps the byte range of any
\* ThreadBlock, its metadata plus its thread unit.  It does not hold: the
\* thread unit of a ThreadBlock is where its own thread's allocations are
\* served from.
C25_NoThreadBlockOverlap ==
    \A a \in sh_allocs : \A pt \in BoundThreads :
        ~RangesOverlap(a.off, a.off + a.size, sh_tblk[pt].meta,
                       sh_tblk[pt].meta + kThreadBlockHdr + ThreadUnit)

\* C25, amended: no allocation returned overlaps the metadata of any
\* ThreadBlock, and none overlaps the thread unit of a ThreadBlock other
\* than the one of the thread it was returned to; this also after the
\* ProcessBlock has been expanded from the root heap.
C25_NoMetadataOrForeignUnitOverlap ==
    \A a \in sh_allocs : \A pt \in BoundThreads :
        /\ ~RangesOverlap(a.off, a.off + a.size, sh_tblk[pt].meta,
                          sh_tblk[pt].meta + kThreadBlockHdr)
        /\ pt # <<a.proc, a.thread>> =>
             ~RangesOverlap(a.off, a.off + a.size, sh_tblk[pt].meta,
                            sh_tblk[pt].meta + kThreadBlockHdr + ThreadUnit)

\* A process whose ProcessBlock has been expanded from the root heap holds an
\* allocation inside the region the expansion brought and one inside its
\* thread's thread unit.
C25_Witness ==
    \E a \in sh_allocs, b \in sh_allocs :
        /\ a.proc = b.proc
        /\ Len(sh_pblk[a.proc].regions) > 1
        /\ a.off >= sh_pblk[a.proc].regions[2][1]
        /\ b.off = ThreadDataStart(sh_tblk[<<b.proc, b.thread>>].meta)

\* ------------------------------------------------------- pre::ring_queue
\*
\* ring_queue<T, COUNT> of ring_queue_pre.h: two counters that only grow
\* between clears and COUNT entries indexed by the counters modulo COUNT.
\* head_ and tail_ are 64-bit and count single calls, so they are taken as
\* they are, without a width; the runs stop pushing at MaxTail.

\* The template parameter COUNT, and the largest tail_ a run reaches.
COUNT == 3
MaxTail == 7

\* The elements pushed.
Entries == {1, 2}

\* What an entry of data_ holds before anything is stored in it: T is
\* default-initialized, so for a scalar T the value is indeterminate.
Indeterminate == {0, 9}

RingSlots == 0..(COUNT - 1)

\* size(): tail_ - head_
rq_size == tail_ - head_

\* empty(): size() == 0
rq_empty == rq_size = 0

\* A queue that refuses a push only when it holds more than COUNT elements.
rq_fullBeyond == rq_size > COUNT

\* full(), and the check of push: size() >= COUNT
rq_full == rq_size >= COUNT

\* capacity()
rq_capacity == COUNT

\* The entry the counter value stands for: counter % COUNT.
EntryIndex(counter) == counter % COUNT

\* The index of back() taken at tail_ itself.
BackIndexAtTail(tail) == tail % COUNT

\* The index of back(): (tail_ - 1) % COUNT
BackIndex(tail) == (tail - 1) % COUNT

\* A clear that leaves tail_ as it is.
ClearedTailKept(tail) == tail

\* clear(): tail_ = 0
ClearedTail(tail) == 0

RingResult(op, out, val) == [op |-> op, out |-> out, val |-> val]

\* push(entry)
push(entry) ==
    IF rq_full
    THEN /\ rq_res' = RingResult("push", "overflow_error", 0)
         /\ UNCHANGED <<head_, tail_, data_, rq_fifo>>
    ELSE /\ tail_ < MaxTail
         /\ data_' = [data_ EXCEPT ![EntryIndex(tail_)] = entry]
         /\ tail_' = tail_ + 1
         /\ rq_fifo' = Append(rq_fifo, entry)
         /\ rq_res' = RingResult("push", "ok", 0)
         /\ UNCHANGED head_

\* pop()
pop ==
    IF tail_ - head_ = 0
    THEN /\ rq_res' = RingResult("pop", "underflow_error", 0)
         /\ UNCHANGED <<head_, tail_, data_, rq_fifo>>
    ELSE /\ rq_res' = RingResult("pop", "ok", data_[EntryIndex(head_)])
         /\ head_' = head_ + 1
         /\ rq_fifo' = Tail(rq_fifo)
         /\ UNCHANGED <<tail_, data_>>

\* front()
front ==
    /\ rq_res' = IF rq_empty
                 THEN RingResult("front", "underflow_error", 0)
                 ELSE RingResult("front", "ok", data_[EntryIndex(head_)])
    /\ UNCHANGED <<head_, tail_, data_, rq_fifo>>

\* back()
back ==
    /\ rq_res' = IF rq_empty
                 THEN RingResult("back", "underflow_error", 0)
                 ELSE RingResult("back", "ok", data_[BackIndex(tail_)])
    /\ UNCHANGED <<head_, tail_, data_, rq_fifo>>

\* clear()
clear ==
    /\ head_' = 0
    /\ tail_' = ClearedTail(tail_)
    /\ rq_fifo' = <<>>
    /\ rq_res' = RingResult("clear", "ok", 0)
    /\ UNCHANGED data_

\* ring_queue(): head_(0), tail_(0); the entries are not written.
RingQueueInit ==
    /\ head_ = 0
    /\ tail_ = 0
    /\ data_ \in [RingSlots -> Indeterminate]
    /\ rq_fifo = <<>>
    /\ rq_res = RingResult("none", "ok", 0)

InitRingQueue ==
    /\ WalIdle /\ HeapIdle /\ BuddyIdle /\ MpscIdle
    /\ ShardIdle /\ RingQueueInit /\ ArenaIdle /\ LastIdle

NextRingQueue ==
    \/ (\E entry \in Entries : push(entry) /\ UNCHANGED notRingQueue)
    \/ (pop /\ UNCHANGED notRingQueue)
    \/ (front /\ UNCHANGED notRingQueue)
    \/ (back /\ UNCHANGED notRingQueue)
    \/ (clear /\ UNCHANGED notRingQueue)

SpecRingQueue == InitRingQueue /\ [][NextRingQueue]_vars

\* The elements the queue holds, oldest first, as the counters and data_
\* give them.
RingContents(head, tail, data) ==
    [i \in 1..(tail - head) |-> data[EntryIndex(head + i - 1)]]

\* C26: pre::ring_queue behaves as a FIFO sequence of at most COUNT elements,
\* also when head_ and tail_ have passed COUNT many times: a successful pop
\* returns the oldest element not yet popped, front returns that element and
\* removes nothing, back returns the element pushed last, and after every
\* call the queue holds exactly the elements pushed and not yet popped, in
\* the order they were pushed.
C26_FifoRefinement ==
    [][ /\ (rq_res'.op = "pop" /\ rq_res'.out = "ok") =>
              /\ rq_res'.val = Head(rq_fifo)
              /\ RingContents(head_', tail_', data_') = Tail(rq_fifo)
        /\ (rq_res'.op = "front" /\ rq_res'.out = "ok") =>
              /\ rq_res'.val = Head(rq_fifo)
              /\ RingContents(head_', tail_', data_') = rq_fifo
        /\ (rq_res'.op = "back" /\ rq_res'.out = "ok") =>
              /\ rq_res'.val = rq_fifo[Len(rq_fifo)]
              /\ RingContents(head_', tail_', data_') = rq_fifo
        /\ RingContents(head_', tail_', data_') = rq_fifo'
        /\ Len(rq_fifo') <= COUNT ]_vars

\* Both counters have passed COUNT twice, the queue is full and back has
\* just returned.
C26_Witness ==
    /\ head_ > COUNT
    /\ tail_ >= 2 * COUNT
    /\ Len(rq_fifo) = COUNT
    /\ rq_fifo[1] # rq_fifo[COUNT]
    /\ rq_res = RingResult("back", "ok", rq_fifo[COUNT])

RingErrors == {"overflow_error", "underflow_error"}

\* C27: an out-of-bounds call fails and changes nothing: push on a queue
\* holding COUNT elements raises overflow_error, pop, front and back on an
\* empty queue raise underflow_error, and a call that raises leaves head_,
\* tail_ and the entries as they were.
C27_OutOfBoundsFailsUnchanged ==
    [][ /\ (rq_res'.op = "push" /\ Len(rq_fifo) = COUNT) =>
              rq_res'.out = "overflow_error"
        /\ (rq_res'.op \in {"pop", "front", "back"} /\ rq_fifo = <<>>) =>
              rq_res'.out = "underflow_error"
        /\ rq_res'.out \in RingErrors =>
              UNCHANGED <<head_, tail_, data_>> ]_vars

\* A push has just been refused on a full queue whose counters have passed
\* COUNT.
C27_Witness ==
    /\ rq_res = RingResult("push", "overflow_error", 0)
    /\ head_ > COUNT
    /\ tail_ - head_ = COUNT

\* C28: in every state reached by push, pop and clear, head_ <= tail_ and
\* size() = tail_ - head_ lies in 0..COUNT; empty() holds exactly when the
\* queue holds nothing, full() exactly when it holds COUNT elements,
\* capacity() is COUNT, and clear leaves both counters at 0.
C28_CountersAndObservers ==
    /\ head_ <= tail_
    /\ rq_size = tail_ - head_
    /\ tail_ - head_ \in 0..COUNT
    /\ rq_empty <=> (tail_ = head_)
    /\ rq_full <=> (tail_ - head_ = COUNT)
    /\ rq_capacity = COUNT
    /\ rq_res.op = "clear" => (head_ = 0 /\ tail_ = 0)

\* clear has just been called on a queue every entry of which had been
\* written.
C28_Witness ==
    /\ rq_res.op = "clear"
    /\ \A i \in RingSlots : data_[i] \notin Indeterminate

\* -------------------------------------------------------- ArenaAllocator
\*
\* The arena of spec 4.4 as test_arena_alloc.cc uses it: a Heap made by
\* shm_init with offset 0 and the arena size as its maximum; AllocateOffset
\* is Heap::Allocate with the alignment asked for (1 when none is asked
\* for), Free does nothing, Reset puts the heap back to offset 0.

\* The arena sizes of the tests, in bytes: 1 KB and 1000.
ArenaSizes == {KiB, 1000}

\* AllocateOffset(ctx, size) and AllocateOffset(ctx, size, alignment): the
\* sizes of the tests and one close to the largest size_t; alignments are
\* powers of two, 1 standing for a call that asks for none.
ArenaRequestSizes == {1, 100, 200, 512, BuddyWord - 50}

ArenaAligns == {1, 64}

\* The offsets Free is called with.
ArenaFreeOffsets == {0, 100, 5000}

\* A call, what it returned or threw, and the call made before it.
ArenaResult(op, out, off, size, align) ==
    [op |-> op, out |-> out, off |-> off, size |-> size, align |-> align,
     after |-> ar_res.op]

\* A Reset that leaves the heap where it is.
ResetHeapKept(h) == h

\* Reset(): the heap is initialized again with offset 0.
ResetHeap(h) == [h EXCEPT !.heap_ = 0]

\* GetHeapOffset()
GetHeapOffset == ar_heap.heap_

\* GetRemainingSize(): Heap::GetRemainingSize
GetRemainingSize ==
    IF ar_heap.heap_ < ar_heap.max_size_
    THEN ar_heap.max_size_ - ar_heap.heap_
    ELSE 0

\* AllocateOffset(ctx, size, alignment): throws OUT_OF_MEMORY when the heap
\* refuses.
ArenaAllocateOffset(size, align) ==
    LET r == HeapAllocate(ar_heap, size, align)
    IN  /\ ar_heap' = r.heap
        /\ ar_res' = ArenaResult("AllocateOffset",
                                 IF r.ok THEN "ok" ELSE "OUT_OF_MEMORY",
                                 r.off, size, align)
        /\ UNCHANGED ar_reset_used

\* Free(ctx, ptr): a no-op.
ArenaFree(off) ==
    /\ ar_res' = ArenaResult("Free", "ok", off, 0, 1)
    /\ UNCHANGED <<ar_heap, ar_reset_used>>

\* Reset()
ArenaReset ==
    /\ ar_heap' = ResetHeap(ar_heap)
    /\ ar_res' = ArenaResult("Reset", "ok", 0, 0, 1)
    /\ ar_reset_used' = (ar_reset_used \/ ar_heap.heap_ > 0)

\* shm_init(id, 0, arena_size, backend)
ArenaInit ==
    /\ \E arena_size \in ArenaSizes :
           ar_heap = [heap_ |-> 0, max_size_ |-> arena_size]
    /\ ar_res = [op |-> "shm_init", out |-> "ok", off |-> 0, size |-> 0,
                 align |-> 1, after |-> "none"]
    /\ ar_reset_used = FALSE

InitArena ==
    /\ WalIdle /\ HeapIdle /\ BuddyIdle /\ MpscIdle
    /\ ShardIdle /\ RingQueueIdle /\ ArenaInit /\ LastIdle

NextArena ==
    \/ (\E size \in ArenaRequestSizes, align \in ArenaAligns :
            ArenaAllocateOffset(size, align) /\ UNCHANGED notArena)
    \/ (\E off \in ArenaFreeOffsets : ArenaFree(off) /\ UNCHANGED notArena)
    \/ (ArenaReset /\ UNCHANGED notArena)

SpecArena == InitArena /\ [][NextArena]_vars

\* The smallest multiple of align that is at least off.
AlignedUp(off, align) ==
    CHOOSE m \in off..(off + align - 1) : m % align = 0

\* A step in which AllocateOffset returned an offset.
ArenaAllocated ==
    /\ ar_res'.op = "AllocateOffset"
    /\ ar_res'.out = "ok"

\* C29: a successful arena allocation returns the smallest multiple of the
\* alignment asked for that is at least the heap offset (the heap offset
\* itself when no alignment is asked for) and moves the heap offset to that
\* value plus the size; the first allocation of a fresh arena is at offset
\* 0, and the remaining size is the arena size minus the heap offset.
C29_AllocationBumpsAlignedOffset ==
    [][ /\ ArenaAllocated =>
              /\ ar_res'.off = AlignedUp(ar_heap.heap_, ar_res'.align)
              /\ ar_heap'.heap_ = ar_res'.off + ar_res'.size
              /\ ar_heap.heap_ = 0 => ar_res'.off = 0
        /\ GetRemainingSize' = ar_heap'.max_size_ - ar_heap'.heap_ ]_vars

\* An allocation aligned to 64 has just skipped from a heap offset that is
\* no multiple of 64 to the next one.
C29_Witness ==
    /\ ar_res.op = "AllocateOffset"
    /\ ar_res.out = "ok"
    /\ ar_res.align = 64
    /\ ar_res.off = 128
    /\ ar_res.size = 100
    /\ ar_heap.heap_ = 228

\* C30: the heap offset is changed only by successful allocations and by
\* Reset: Free leaves the heap offset and the remaining size as they were,
\* Reset sets the heap offset to 0, and the allocation that follows a Reset
\* returns offset 0.
C30_OnlyAllocateAndResetMoveHeap ==
    [][ /\ ar_heap'.heap_ # ar_heap.heap_ =>
              ArenaAllocated \/ ar_res'.op = "Reset"
        /\ ar_res'.op = "Free" =>
              /\ GetHeapOffset' = GetHeapOffset
              /\ GetRemainingSize' = GetRemainingSize
        /\ ar_res'.op = "Reset" => GetHeapOffset' = 0
        /\ (ar_res'.after = "Reset" /\ ArenaAllocated) => ar_res'.off = 0 ]_vars

\* After allocations that moved the heap and a Reset, an allocation has
\* returned offset 0 again.
C30_Witness ==
    /\ ar_reset_used
    /\ ar_res.after = "Reset"
    /\ ar_res.op = "AllocateOffset"
    /\ ar_res.out = "ok"
    /\ ar_res.off = 0
    /\ ar_res.size = 200
    /\ ar_heap.heap_ = 200

\* ------------------------------------------------ WAL: the capacity (C38)

\* C38: the on-disk file of a log that was opened never holds more bytes
\* than the capacity_bytes its Open was called with, whatever Log, Sync and
\* Truncate calls follow.
C38_FileWithinCapacity ==
    (file_path_ # "") => (Len(disk) <= capacity_bytes_)

\* A log opened with capacity_bytes whose file holds a whole record and
\* still fits the capacity.
C38_Witness ==
    /\ file_path_ # "" /\ is_open /\ synced >= 1
    /\ Len(disk) > 0 /\ Len(disk) <= capacity_bytes_

\* ------------------------------------------ WAL: re-opening after a crash

\* A new process calls TransactionLog::Open on the file a crashed writer
\* left: the stream is opened in append mode, so what the file holds, a
\* partial last record included, stays and new records go after it.
Reopen ==
    /\ crashed /\ reopen_at = -1
    /\ crashed' = FALSE
    /\ wal_pc' = "idle"
    /\ file_path_' = "wal"
    /\ capacity_bytes_' = CapacityBytes
    /\ is_open' = TRUE
    /\ disk' = OpenApp(disk)
    /\ buffer_' = <<>>
    /\ ofs_pending' = <<>>
    /\ wal_error' = "none"
    /\ NoLoadResult
    /\ nlog' = 0
    /\ reopen_at' = Len(logged)
    /\ reopen_disk' = disk
    /\ UNCHANGED <<ofs_cap, logged, synced, dropped, truncated, trunc_disk,
                   trunc_pending>>

NextWalReopen ==
    \/ (Open /\ UNCHANGED notWal)
    \/ (\E in \in TxnInputs : Log(in) /\ UNCHANGED notWal)
    \/ (WriteSize /\ UNCHANGED notWal)
    \/ (WritePayload /\ UNCHANGED notWal)
    \/ (Sync /\ UNCHANGED notWal)
    \/ (Close /\ UNCHANGED notWal)
    \/ (LoadEntries /\ UNCHANGED notWal)
    \/ (Crash /\ UNCHANGED notWal)
    \/ (Reopen /\ UNCHANGED notWal)

SpecWalReopen == InitWal /\ [][NextWalReopen]_vars

\* The file that was re-opened ended inside a record.
ReopenedOnTornTail ==
    /\ reopen_at >= 0
    /\ \A n \in 0..reopen_at : reopen_disk # EncodeFirst(logged, n)

\* The records logged since the file was re-opened, as Load returns them.
LoggedSinceReopen ==
    [i \in 1..(Len(logged) - reopen_at) |-> RawEntry(logged[reopen_at + i])]

\* Everything logged since the file was re-opened has reached the file.
SyncedSinceReopen ==
    ~crashed /\ wal_pc = "idle" /\ ofs_pending = <<>>

\* C35: when a file whose tail is a partial record was re-opened, Load
\* returns the complete records that preceded the torn tail and then, in
\* order, the records logged and synced since the re-open.
C35_RecordsAfterTornTailLoaded ==
    (ReopenedOnTornTail /\ SyncedSinceReopen /\ load_done) =>
        entries = Load("wal", reopen_disk) \o LoggedSinceReopen

\* A record was logged and synced after a re-open on a torn tail, and Load
\* has run.
C35_Witness ==
    /\ ReopenedOnTornTail /\ SyncedSinceReopen /\ load_done
    /\ Len(logged) > reopen_at

\* ------------------------- BaseAllocator, FullPtr, OffsetPointer (scaled)

\* The width of size_t and of a process pointer, scaled down.
PtrBits == 5

PtrWord == 2 ^ PtrBits

\* OffsetPointer::GetNull: off_ = (size_t)-1.
NullOffset == PtrWord - 1

OffsetIsNull(off) == off = NullOffset

\* The allocator under test, and a second allocator over another region.
ThisAllocId == 1

OtherAllocId == 2

AllocBufferSize == 8

BufferAddrs == {8, 16}

\* The address of the other allocator's buffer_.
OtherBuffer == 4

\* The offsets FullPtr is constructed from.
OffsetInputs == {0, 3, AllocBufferSize - 1, AllocBufferSize, 20, NullOffset}

\* The offsets the core allocator hands out.
CoreOffsets == {0, 4}

MakePointer(id, off) == [alloc_id_ |-> id, off_ |-> off]

PointerInputs == {MakePointer(id, off) : id \in {ThisAllocId, OtherAllocId},
                                         off \in OffsetInputs}

MakeFullPtr(ptr, shm) == [ptr_ |-> ptr, shm_ |-> shm]

\* FullPtr::IsNull: ptr_ == nullptr.
FullPtrIsNull(p) == p.ptr_ = 0

\* FullPtr::GetNull.
NullFullPtr == MakeFullPtr(0, MakePointer(0, NullOffset))

\* Allocator::ContainsPtr(const T *).
ContainsPtr(ptr) == al_buffer_ <= ptr /\ ptr < al_buffer_ + al_buffer_size_

\* Allocator::ContainsPtr(OffsetPointer).
ContainsOffsetPointer(off) == off < al_buffer_size_

\* Allocator::ContainsPtr(Pointer): the offset alone decides.
ContainsPointer(shm) == shm.off_ < al_buffer_size_

\* buffer_ + off in the arithmetic of the pointer width.
BufferPlus(off) == (al_buffer_ + off) % PtrWord

Returned(op, arg, out, changed) ==
    [op |-> op, arg |-> arg, err |-> "none", out |-> out, changed |-> changed]

Threw(op, arg, err) ==
    [op |-> op, arg |-> arg, err |-> err, out |-> NullFullPtr, changed |-> FALSE]

\* FullPtr(ctx_alloc, OffsetPointer).
FullPtrFromOffsetPointer(off) ==
    /\ al_res' = IF ContainsOffsetPointer(off)
                 THEN Returned("FullPtrOffset", MakePointer(al_id_, off),
                               MakeFullPtr(BufferPlus(off), MakePointer(al_id_, off)),
                               FALSE)
                 ELSE Threw("FullPtrOffset", MakePointer(al_id_, off),
                            "PTR_NOT_IN_ALLOCATOR")
    /\ UNCHANGED <<al_id_, al_buffer_, al_buffer_size_, al_core, al_freed,
                   mk_off_, mk_in, mk_ops>>

\* FullPtr(ctx_alloc, Pointer).
FullPtrFromPointer(shm) ==
    /\ al_res' = IF ContainsPointer(shm)
                 THEN Returned("FullPtrPointer", shm,
                               MakeFullPtr(BufferPlus(shm.off_),
                                           MakePointer(shm.alloc_id_, shm.off_)),
                               FALSE)
                 ELSE Threw("FullPtrPointer", shm, "PTR_NOT_IN_ALLOCATOR")
    /\ UNCHANGED <<al_id_, al_buffer_, al_buffer_size_, al_core, al_freed,
                   mk_off_, mk_in, mk_ops>>

\* What the core allocator's AllocateOffset and AlignedAllocateOffset may
\* return: an offset it has not handed out, or the null offset.
CoreAllocateOffsets == (CoreOffsets \ al_core) \cup {NullOffset}

\* What ReallocateOffsetNoNullCheck may return for p: p itself, an offset not
\* handed out, or the null offset.
CoreReallocateOffsets(off) == {off} \cup CoreAllocateOffsets

\* The FullPtr the wrappers build from the offset the core returned.
WrapOffset(off) == MakeFullPtr(BufferPlus(off), MakePointer(al_id_, off))

\* BaseAllocator::Allocate(ctx, size) and AlignedAllocate(ctx, size,
\* alignment): the same wrapping of what the core returned.
BaseAllocate(op) ==
    /\ \E off \in CoreAllocateOffsets :
         /\ al_core' = IF OffsetIsNull(off) THEN al_core ELSE al_core \cup {off}
         /\ al_res' = Returned(op, NullFullPtr, WrapOffset(off), ~OffsetIsNull(off))
    /\ UNCHANGED <<al_id_, al_buffer_, al_buffer_size_, al_freed,
                   mk_off_, mk_in, mk_ops>>

\* BaseAllocator::Reallocate(ctx, p, new_size).
Reallocate(p) ==
    /\ IF FullPtrIsNull(p)
       THEN \E off \in CoreAllocateOffsets :
              /\ al_core' = IF OffsetIsNull(off) THEN al_core ELSE al_core \cup {off}
              /\ al_res' = Returned("Reallocate", p, WrapOffset(off),
                                    ~OffsetIsNull(off))
       ELSE \E off \in CoreReallocateOffsets(p.shm_.off_) :
              /\ al_core' = IF OffsetIsNull(off) \/ off = p.shm_.off_ THEN al_core
                            ELSE (al_core \ {p.shm_.off_}) \cup {off}
              /\ al_res' = Returned("Reallocate", p, WrapOffset(off),
                                    al_core' # al_core)
    /\ UNCHANGED <<al_id_, al_buffer_, al_buffer_size_, al_freed,
                   mk_off_, mk_in, mk_ops>>

\* The core allocator's FreeOffsetNoNullCheck: the offset goes back to the
\* core, whatever it is.
FreeOffsetNoNullCheck(off) ==
    /\ al_core' = al_core \ {off}
    /\ al_freed' = al_freed \cup {off}

\* BaseAllocator::Free(ctx, p).
Free(p) ==
    /\ IF FullPtrIsNull(p)
       THEN /\ al_res' = Threw("Free", p, "INVALID_FREE")
            /\ UNCHANGED <<al_core, al_freed>>
       ELSE /\ FreeOffsetNoNullCheck(p.shm_.off_)
            /\ al_res' = Returned("Free", p, NullFullPtr,
                                  <<al_core', al_freed'>> # <<al_core, al_freed>>)
    /\ UNCHANGED <<al_id_, al_buffer_, al_buffer_size_, mk_off_, mk_in, mk_ops>>

\* The FullPtrs a caller holds: the null FullPtr, what the last call returned,
\* pointers to what this allocator handed out, and pointers into the other
\* allocator's region.
FullPtrInputs ==
    {NullFullPtr}
    \cup (IF al_res # <<>> /\ al_res.err = "none" /\ al_res.op # "Free"
          THEN {al_res.out} ELSE {})
    \cup {MakeFullPtr(BufferPlus(off), MakePointer(al_id_, off)) : off \in al_core}
    \cup {MakeFullPtr(OtherBuffer + off, MakePointer(OtherAllocId, off)) : off \in {0, 20}}

\* The high bit of size_t.
FirstBit == 2 ^ (PtrBits - 1)

MARK_FIRST_BIT(x) == IF x >= FirstBit THEN x ELSE x + FirstBit

IS_FIRST_BIT_MARKED(x) == x >= FirstBit

UNMARK_FIRST_BIT(x) == IF x >= FirstBit THEN x - FirstBit ELSE x

\* OffsetPointerBase::Mark, IsMarked, Unmark.
Mark(off) == MARK_FIRST_BIT(off)

IsMarked(off) == IS_FIRST_BIT_MARKED(off)

Unmark(off) == UNMARK_FIRST_BIT(off)

\* How many calls are followed on one OffsetPointer.
MaxMarkOps == 2

\* An OffsetPointer is constructed with offset off.
OffsetPointerMake(off) ==
    /\ mk_off_' = off /\ mk_in' = off /\ mk_ops' = <<>>
    /\ UNCHANGED <<al_id_, al_buffer_, al_buffer_size_, al_core, al_freed, al_res>>

\* p = p.Mark().
MarkCall ==
    /\ Len(mk_ops) < MaxMarkOps
    /\ mk_off_' = Mark(mk_off_) /\ mk_ops' = Append(mk_ops, "Mark")
    /\ UNCHANGED <<al_id_, al_buffer_, al_buffer_size_, al_core, al_freed, al_res,
                   mk_in>>

\* p = p.Unmark().
UnmarkCall ==
    /\ Len(mk_ops) < MaxMarkOps
    /\ mk_off_' = Unmark(mk_off_) /\ mk_ops' = Append(mk_ops, "Unmark")
    /\ UNCHANGED <<al_id_, al_buffer_, al_buffer_size_, al_core, al_freed, al_res,
                   mk_in>>

BaseAllocatorInit ==
    /\ al_id_ = ThisAllocId
    /\ al_buffer_ \in BufferAddrs
    /\ al_buffer_size_ = AllocBufferSize
    /\ al_core = {}
    /\ al_freed = {}
    /\ al_res = <<>>

\* A default-constructed OffsetPointer is not initialized; the model starts
\* from the null pointer.
OffsetPointerInit ==
    /\ mk_off_ = NullOffset
    /\ mk_in = NullOffset
    /\ mk_ops = <<>>

EarlierIdle ==
    /\ WalIdle /\ HeapIdle /\ BuddyIdle /\ MpscIdle
    /\ ShardIdle /\ RingQueueIdle /\ ArenaIdle

InitPointer ==
    /\ EarlierIdle
    /\ BaseAllocatorInit /\ OffsetPointerIdle /\ ShmIdle /\ SchedulerIdle

InitOffsetPointer ==
    /\ EarlierIdle
    /\ BaseAllocatorIdle /\ OffsetPointerInit /\ ShmIdle /\ SchedulerIdle

NextPointer ==
    \/ (\E off \in OffsetInputs : FullPtrFromOffsetPointer(off) /\ UNCHANGED notPointer)
    \/ (\E shm \in PointerInputs : FullPtrFromPointer(shm) /\ UNCHANGED notPointer)
    \/ (\E op \in {"Allocate", "AlignedAllocate"} :
            BaseAllocate(op) /\ UNCHANGED notPointer)
    \/ (\E p \in FullPtrInputs : Reallocate(p) /\ UNCHANGED notPointer)
    \/ (\E p \in FullPtrInputs : Free(p) /\ UNCHANGED notPointer)

SpecPointer == InitPointer /\ [][NextPointer]_vars

NextOffsetPointer ==
    \/ (\E off \in 0..(PtrWord - 1) : OffsetPointerMake(off) /\ UNCHANGED notPointer)
    \/ (MarkCall /\ UNCHANGED notPointer)
    \/ (UnmarkCall /\ UNCHANGED notPointer)

SpecOffsetPointer == InitOffsetPointer /\ [][NextOffsetPointer]_vars

\* ------------------------------------------ BaseAllocator, FullPtr: claims

\* The pointer belongs to this allocator: it names the allocator and its
\* offset lies in the allocator's data range.
PointerBelongs(shm) == shm.alloc_id_ = al_id_ /\ shm.off_ < al_buffer_size_

\* C31: constructing a FullPtr from the allocator and an OffsetPointer or a
\* Pointer succeeds only when the pointer belongs to the allocator; an offset
\* outside the data range and a Pointer of another allocator are rejected
\* with PTR_NOT_IN_ALLOCATOR.
C31_ForeignPointerRejected ==
    (al_res # <<>> /\ al_res.op \in {"FullPtrOffset", "FullPtrPointer"}) =>
        IF PointerBelongs(al_res.arg)
        THEN al_res.err = "none"
        ELSE al_res.err = "PTR_NOT_IN_ALLOCATOR"

\* An offset outside the data range was rejected.
C31_Witness ==
    /\ al_res # <<>> /\ al_res.op = "FullPtrPointer"
    /\ al_res.arg.alloc_id_ = al_id_ /\ al_res.arg.off_ = AllocBufferSize
    /\ al_res.err = "PTR_NOT_IN_ALLOCATOR"

\* The FullPtr lies in this allocator.
FullPtrBelongs(p) == ContainsPtr(p.ptr_) /\ PointerBelongs(p.shm_)

\* C32: Free of a null pointer and Free of a pointer that does not lie in
\* the allocator raise INVALID_FREE and leave the allocator's state
\* unchanged.
C32_BadFreeRaisesInvalidFree ==
    (al_res # <<>> /\ al_res.op = "Free"
        /\ (FullPtrIsNull(al_res.arg) \/ ~FullPtrBelongs(al_res.arg))) =>
        (al_res.err = "INVALID_FREE" /\ ~al_res.changed)

\* The null FullPtr was freed while the core held an allocation.
C32_Witness ==
    /\ al_res # <<>> /\ al_res.op = "Free" /\ al_res.arg = NullFullPtr
    /\ al_res.err = "INVALID_FREE" /\ al_core # {}

\* C34: when the core allocator returned the null offset, the FullPtr that
\* Allocate, AlignedAllocate and Reallocate return reports IsNull().
C34_NullOffsetIsNullFullPtr ==
    (al_res # <<>> /\ al_res.op \in {"Allocate", "AlignedAllocate", "Reallocate"}
        /\ OffsetIsNull(al_res.out.shm_.off_)) =>
        FullPtrIsNull(al_res.out)

\* The core returned the null offset to an Allocate.
C34_Witness ==
    /\ al_res # <<>> /\ al_res.op = "Allocate"
    /\ OffsetIsNull(al_res.out.shm_.off_) /\ al_core = CoreOffsets

\* C39: for an OffsetPointer p whose high bit is clear IsMarked(Mark(p))
\* holds and Unmark(Mark(p)) = p; the null pointer is not reported as marked
\* and Unmark of the null pointer is the null pointer.
C39_MarkRoundTripAndNull ==
    /\ (mk_in < FirstBit /\ mk_ops = <<"Mark">>) => IsMarked(mk_off_)
    /\ (mk_in < FirstBit /\ mk_ops = <<"Mark", "Unmark">>) => mk_off_ = mk_in
    /\ (OffsetIsNull(mk_in) /\ mk_ops = <<>>) => ~IsMarked(mk_off_)
    /\ (OffsetIsNull(mk_in) /\ mk_ops = <<"Unmark">>) => OffsetIsNull(mk_off_)

\* A pointer with a clear high bit was marked and unmarked again.
C39_Witness ==
    /\ mk_in < FirstBit /\ mk_in > 0 /\ mk_ops = <<"Mark", "Unmark">>
    /\ mk_off_ = mk_in

\* ------------------------------------------------------------ PosixShmMmap

\* Two processes with one PosixShmMmap object each: the first creates the
\* named region with shm_init, the second attaches to it with shm_attach.
Creator == "creator"

Attacher == "attacher"

ShmBackends == {Creator, Attacher}

\* A PosixShmMmap object after its constructor: no flag set, nothing held.
\* made is history: which of shm_init and shm_attach was called and how it
\* ended; alive is FALSE once the destructor has run.
FreshBackend ==
    [made |-> "none", initialized |-> FALSE, owned |-> FALSE, url_set |-> FALSE,
     mapped |-> FALSE, fd_open |-> FALSE, alive |-> TRUE]

\* How the operating system may answer the calls of shm_init and shm_attach.
OsOutcomes == {"ok", "open_fails", "map_fails"}

\* shm_init(backend_id, size, url): the flags are set first, a region of
\* that name is unlinked, then the region is created and mapped.  A failed
\* CreateNewSharedMemory returns false, a failed map throws.
shm_init(b, os) ==
    /\ b = Creator /\ shm_backend[b].alive /\ shm_backend[b].made = "none"
    /\ shm_region' = (os # "open_fails")
    /\ shm_backend' = [shm_backend EXCEPT ![b] =
         [made |-> IF os = "ok" THEN "init" ELSE "init_failed",
          initialized |-> TRUE,
          owned |-> TRUE,
          url_set |-> os # "open_fails",
          mapped |-> os = "ok",
          fd_open |-> os # "open_fails",
          alive |-> TRUE]]
    /\ UNCHANGED shm_calls

\* shm_attach(url): the flags are set first, then the region is opened and
\* mapped.  A failed OpenSharedMemory returns false, a failed map throws.
shm_attach(b, os) ==
    /\ b = Attacher /\ shm_backend[b].alive /\ shm_backend[b].made = "none"
    /\ (os # "open_fails") => shm_region
    /\ shm_backend' = [shm_backend EXCEPT ![b] =
         [made |-> IF os = "ok" THEN "attach" ELSE "attach_failed",
          initialized |-> TRUE,
          owned |-> FALSE,
          url_set |-> os # "open_fails",
          mapped |-> os = "ok",
          fd_open |-> os # "open_fails",
          alive |-> TRUE]]
    /\ UNCHANGED <<shm_region, shm_calls>>

\* _Detach on the object state s of backend b: <<object, calls made>>.
DetachOf(b, s) ==
    IF ~s.initialized THEN [obj |-> s, calls |-> {}]
    ELSE [obj |-> [s EXCEPT !.initialized = FALSE, !.mapped = FALSE,
                            !.fd_open = FALSE],
          calls |-> {<<b, IF s.mapped THEN "unmap" ELSE "unmap_not_mapped">>,
                     <<b, IF s.fd_open THEN "close" ELSE "close_not_open">>}]

\* _Destroy on the object state s of backend b.
DestroyOf(b, s) ==
    IF ~s.initialized THEN [obj |-> s, calls |-> {}, unlinks |-> FALSE]
    ELSE LET d == DetachOf(b, s)
         IN  [obj |-> d.obj,
              calls |-> d.calls \cup
                        {<<b, IF s.url_set THEN "unlink" ELSE "unlink_no_url">>},
              unlinks |-> s.url_set]

\* shm_detach().
shm_detach(b) ==
    /\ shm_backend[b].alive
    /\ LET d == DetachOf(b, shm_backend[b])
       IN  /\ shm_backend' = [shm_backend EXCEPT ![b] = d.obj]
           /\ shm_calls' = shm_calls \cup d.calls
    /\ UNCHANGED shm_region

\* shm_destroy().
shm_destroy(b) ==
    /\ shm_backend[b].alive
    /\ LET d == DestroyOf(b, shm_backend[b])
       IN  /\ shm_backend' = [shm_backend EXCEPT ![b] = d.obj]
           /\ shm_calls' = shm_calls \cup d.calls
           /\ shm_region' = IF d.unlinks THEN FALSE ELSE shm_region

\* ~PosixShmMmap(): _Destroy if the object owns the region, else _Detach.
ShmDestructor(b) ==
    /\ shm_backend[b].alive
    /\ IF shm_backend[b].owned
       THEN LET d == DestroyOf(b, shm_backend[b])
            IN  /\ shm_backend' = [shm_backend EXCEPT ![b] =
                                     [d.obj EXCEPT !.alive = FALSE]]
                /\ shm_calls' = shm_calls \cup d.calls
                /\ shm_region' = IF d.unlinks THEN FALSE ELSE shm_region
       ELSE LET d == DetachOf(b, shm_backend[b])
            IN  /\ shm_backend' = [shm_backend EXCEPT ![b] =
                                     [d.obj EXCEPT !.alive = FALSE]]
                /\ shm_calls' = shm_calls \cup d.calls
                /\ UNCHANGED shm_region

ShmInit ==
    /\ shm_region = FALSE
    /\ shm_backend = [b \in ShmBackends |-> FreshBackend]
    /\ shm_calls = {}

InitShm ==
    /\ EarlierIdle
    /\ PointerIdle /\ ShmInit /\ SchedulerIdle

NextShm ==
    \/ (\E b \in ShmBackends, os \in OsOutcomes : shm_init(b, os) /\ UNCHANGED notShm)
    \/ (\E b \in ShmBackends, os \in OsOutcomes : shm_attach(b, os) /\ UNCHANGED notShm)
    \/ (\E b \in ShmBackends : shm_detach(b) /\ UNCHANGED notShm)
    \/ (\E b \in ShmBackends : shm_destroy(b) /\ UNCHANGED notShm)
    \/ (\E b \in ShmBackends : ShmDestructor(b) /\ UNCHANGED notShm)

SpecShm == InitShm /\ [][NextShm]_vars

\* ---------------------------------------------------- PosixShmMmap: claims

\* C33: the region shm_init created has been unlinked by the time the
\* creator's backend object is torn down, whatever shm_detach, shm_destroy
\* and destructor calls were made; a process that only attached never
\* unlinks the region.
C33_CreatorDestroysRegion ==
    /\ (shm_backend[Creator].made = "init" /\ ~shm_backend[Creator].alive) =>
          ~shm_region
    /\ <<Attacher, "unlink">> \notin shm_calls

\* The creator's object was torn down with the region still mapped, and the
\* region is gone, while the backend that attached was only detached.
C33_Witness ==
    /\ shm_backend[Creator].made = "init" /\ ~shm_backend[Creator].alive
    /\ <<Creator, "unlink">> \in shm_calls /\ ~shm_region
    /\ shm_backend[Attacher].made = "attach" /\ ~shm_backend[Attacher].alive

\* The system calls that unmap memory or unlink a region.
UnmapOrUnlink == {"unmap", "unmap_not_mapped", "unlink", "unlink_no_url"}

\* C36: a backend whose shm_init or shm_attach failed is not initialized
\* and does not own, and its shm_detach, shm_destroy and destructor neither
\* unmap memory nor unlink a region.
C36_FailedBackendIsInert ==
    \A b \in ShmBackends :
        (shm_backend[b].made \in {"init_failed", "attach_failed"}) =>
            /\ ~shm_backend[b].initialized
            /\ ~shm_backend[b].owned
            /\ \A k \in UnmapOrUnlink : <<b, k>> \notin shm_calls

\* A backend whose shm_attach failed was torn down.
C36_Witness ==
    /\ shm_backend[Attacher].made = "attach_failed"
    /\ ~shm_backend[Attacher].alive

\* ----------------------------------------- DefaultScheduler::AdjustPolling

\* Maximum polling interval in microseconds (100 ms).
kMaxPollingIntervalUs == 100000

\* The periods of the periodic tasks, in nanoseconds: whole microseconds, so
\* that true_period_ns_ / 1000.0 and its doublings are integers.
PeriodsNs == {1000, 3000, 7000, 50000000, 250000000, 1000000000}

\* DefaultScheduler::AdjustPolling(run_ctx) on a run context whose did_work_
\* the worker has set to did_work.
AdjustPolling(did_work) ==
    /\ did_work_' = did_work
    /\ IF did_work
       THEN yield_time_us_' = true_period_ns_ \div 1000
       ELSE LET current_interval == IF yield_time_us_ <= 0
                                    THEN true_period_ns_ \div 1000
                                    ELSE yield_time_us_
                new_interval == current_interval * 2
            IN  yield_time_us_' = IF new_interval > kMaxPollingIntervalUs
                                  THEN kMaxPollingIntervalUs
                                  ELSE new_interval
    /\ sched_last' = <<did_work, yield_time_us_>>
    /\ UNCHANGED true_period_ns_

SchedulerInit ==
    /\ true_period_ns_ \in PeriodsNs
    /\ yield_time_us_ = 0
    /\ did_work_ = FALSE
    /\ sched_last = <<>>

InitScheduler ==
    /\ EarlierIdle
    /\ PointerIdle /\ ShmIdle /\ SchedulerInit

NextScheduler ==
    \E did_work \in BOOLEAN : AdjustPolling(did_work) /\ UNCHANGED notScheduler

SpecScheduler == InitScheduler /\ [][NextScheduler]_vars

\* The interval a backoff step starts from.
BackoffFrom(before) == IF before <= 0 THEN true_period_ns_ \div 1000 ELSE before

\* C40: after any AdjustPolling calls yield_time_us_ never exceeds 100,000
\* microseconds: a call with did_work_ false doubles the interval up to that
\* cap, a call with did_work_ true sets it to true_period_ns_ / 1000.
C40_YieldTimeCapped ==
    /\ yield_time_us_ <= kMaxPollingIntervalUs
    /\ (sched_last # <<>> /\ sched_last[1]) =>
          yield_time_us_ = true_period_ns_ \div 1000
    /\ (sched_last # <<>> /\ ~sched_last[1]) =>
          yield_time_us_ = IF 2 * BackoffFrom(sched_last[2]) > kMaxPollingIntervalUs
                           THEN kMaxPollingIntervalUs
                           ELSE 2 * BackoffFrom(sched_last[2])


\* The backoff of an idle task whose period is below the cap has reached
\* the cap.
C40_Witness ==
    /\ sched_last # <<>> /\ ~sched_last[1] /\ sched_last[2] > 0
    /\ sched_last[2] < kMaxPollingIntervalUs
    /\ true_period_ns_ \div 1000 < kMaxPollingIntervalUs
    /\ yield_time_us_ = kMaxPollingIntervalUs

\* ------------------------------------------- Heap: termination of Allocate

\* The requests of the threads that keep calling Allocate: a small block and
\* a block of nearly the whole range of size_t, both with alignment 1.
LiveSizes == {4, Word - 4}

\* A thread calls Allocate; the threads call it again and again, without a
\* bound, and the histories hcalls and hcommitted are not kept.
AllocateCallLive(t, size) ==
    /\ hpc[t] = "idle"
    /\ hreq' = [hreq EXCEPT ![t] = [size |-> size, align |-> 1]]
    /\ hres' = [hres EXCEPT ![t] = NoResult]
    /\ hpc' = [hpc EXCEPT ![t] = "load"]
    /\ UNCHANGED <<heap_, max_size_, hloc, hcalls, hcommitted>>

\* heap_.compare_exchange_weak(off, end_off) succeeds.
AllocateCasLive(t) ==
    /\ hpc[t] = "cas" /\ heap_ = hloc[t].off
    /\ heap_' = hloc[t].end_off
    /\ hres' = [hres EXCEPT ![t] =
           [kind |-> "ok", off |-> hloc[t].aligned_off, size |-> hreq[t].size]]
    /\ hpc' = [hpc EXCEPT ![t] = "idle"]
    /\ hloc' = [hloc EXCEPT ![t] = NoLocals]
    /\ hreq' = [hreq EXCEPT ![t] = NoRequest]
    /\ UNCHANGED <<max_size_, hcalls, hcommitted>>

\* compare_exchange_weak fails because another thread moved heap_.  The
\* spurious failures of the weak form are left out: the hardware does not
\* repeat them for ever.
AllocateCasFailContended(t) ==
    /\ heap_ # hloc[t].off
    /\ AllocateCasFail(t)

\* One step of thread t inside Allocate.
AllocateStepLive(t) ==
    \/ AllocateLoad(t)
    \/ AllocateCasLive(t)
    \/ AllocateCasFailContended(t)

NextHeapLive ==
    \/ (\E t \in Threads, size \in LiveSizes :
          AllocateCallLive(t, size) /\ UNCHANGED notHeap)
    \/ (\E t \in Threads : AllocateLoad(t) /\ UNCHANGED notHeap)
    \/ (\E t \in Threads : AllocateCasLive(t) /\ UNCHANGED notHeap)
    \/ (\E t \in Threads : AllocateCasFailContended(t) /\ UNCHANGED notHeap)

\* Fair scheduling: a thread inside Allocate keeps taking steps.
SpecHeapLive ==
    /\ InitHeap
    /\ [][NextHeapLive]_vars
    /\ \A t \in Threads : WF_vars(AllocateStepLive(t) /\ UNCHANGED notHeap)

\* C37: under fair scheduling every Allocate call eventually returns, with
\* an offset or with OUT_OF_MEMORY, whatever the other threads allocate: a
\* call retries its compare-and-swap only finitely many times.
C37_EveryAllocateReturns ==
    \A t \in Threads : (hpc[t] \in {"load", "cas"}) ~> (hpc[t] = "idle")

\* A call returned an offset while another thread holds a stale offset and
\* has to retry.
C37_Witness ==
    \E t \in Threads, u \in Threads :
        /\ hpc[t] = "idle" /\ hres[t].kind = "ok"
        /\ hpc[u] = "cas" /\ heap_ # hloc[u].off

====
